---- MODULE Spec2Model ----
(***************************************************************************)
(* Verification model of the external-data aggregation and caching core   *)
(* of tourist-tour-back: the OAuth token lifecycle (OAuthService), the    *)
(* pricing deduplicator (OfferService), the content cache and search      *)
(* aggregator (SearchService), the nightly synchroniser (SyncService), the *)
(* image proxy (ImageProxyService) and quickBook (ReservationService).    *)
(*                                                                         *)
(* The process is single-threaded and cooperative: a step of the model is *)
(* the code that runs between two suspension points (an await on the      *)
(* key-value store or on an HTTP call).  A store command takes effect     *)
(* when it is issued and its continuation runs when its reply arrives;    *)
(* the one ioredis connection answers commands in the order they were     *)
(* sent, so the continuations of store commands run in issue order.       *)
(* HTTP responses arrive in any order.                                     *)
(***************************************************************************)
EXTENDS Integers, Sequences, FiniteSets, TLC

VARIABLES
    now,                   \* Date.now(), in seconds
    expiresIn,             \* the expires_in the token endpoint answers with
    memoryToken,           \* OAuthService.memoryToken (Null or a token id)
    memoryTokenExpiresAt,  \* OAuthService.memoryTokenExpiresAt (Null or an instant)
    refreshingPromise,     \* OAuthService.refreshingPromise (Null or a getAccessToken run)
    tokenStore,            \* the store entry oauth:access_token: [tok, exp]
    redisQ,                \* store commands whose reply has not been delivered, in issue order
    gat,                   \* the getAccessToken() runs started so far
    callers,               \* the callers of the OAuthService and where each one is
    issued,                \* history: the tokens issued: [at, e, by] (by = 0: by an earlier run)
    tokenRequests,         \* history: requests sent to the token endpoint
    tokenFailures,         \* history: token requests that failed
    roomStaysCache,        \* the store entries search:room-stays:<key>
    inFlightRequests,      \* OfferService.inFlightRequests (0: no entry)
    fetches,               \* the fetchRoomStays() runs started so far
    dcalls,                \* the getRoomStaysWithDedup() calls and where each one is
    contentCache,          \* the store entries hotel:<id> (0: no entry, else a content version)
    ttlElapsed,            \* history: the ids whose entry outlived its 24 h TTL
    ccalls,                \* the getPropertyContent() calls and where each one is
    sIds,                  \* getCheapestByPropertyIds: ids.length (the ids are 1..sIds)
    sPc,                   \* getCheapestByPropertyIds: where the call is
    sI,                    \* getCheapestByPropertyIds: the loop index i
    sOut,                  \* getCheapestByPropertyIds: the map out, as a set of offers
    sQueried,              \* history: the chunk starts whose pricing query was sent
    sFailed,               \* history: the chunk starts whose pricing query failed
    sEncountered,          \* history: the room stays of the answers, in encounter order
    isSyncing,             \* SyncService.isSyncing
    geoCities,             \* whether the store holds geo:cities
    runs,                  \* the invocations of handleNightlySync and where each one is
    hN,                    \* getContentForIds: ids.length (the ids are 1..hN)
    hPc,                   \* getContentForIds: where the call is
    hJ,                    \* getContentForIds: the index of the cache lookup
    hI,                    \* getContentForIds: the loop index i over misses
    hMisses,               \* getContentForIds: the list misses
    hItem,                 \* getContentForIds: the fetchAndCacheContent() of each miss
    hSeen,                 \* history: what the cache lookup of each id found
    hResult,               \* getContentForIds: the map result (0: no entry)
    lOffset,               \* getHotelsList: opts.offset (0: not given)
    lLimit,                \* getHotelsList: opts.limit (0: not given)
    lNights,               \* getHotelsList: departure - arrival, in days
    lContent,              \* getHotelsList: contentById (0: no entry)
    lCheapest,             \* getHotelsList: cheapestById (NoOffer: no entry)
    lPc,                   \* getHotelsList: where the call is
    lCards,                \* getHotelsList: the cards returned
    oStays,                \* getPropertyOffers: roomStays, the result of getRoomStaysWithDedup
    oDays,                 \* getPropertyOffers: departure - arrival, in days
    oPc,                   \* getPropertyOffers: where the call is
    oOffers,               \* getPropertyOffers: offers of the response
    oMinPrice,             \* getPropertyOffers: minPrice of the response (NoPrice: undefined)
    pUrl,                  \* transformUrl: originalUrl, as a list of code points
    pBase,                 \* transformUrl: baseUrl || process.env.API_BASE_URL || ''
    pPc,                   \* where the caller of the ImageProxyService is
    pDecoded,              \* decodeUrl(encodeUrl(originalUrl))
    pProxy,                \* transformUrl(originalUrl)
    pProxy2,               \* transformUrl(transformUrl(originalUrl))
    iFiles,                \* the files of uploads/images: <<hash, ext>>
    iWrites,               \* history: the files written by writeFileSync, in order
    icalls,                \* the getImageByEncodedUrl() calls and where each one is
    bChosen,               \* history: the offer of the pricing engine the caller selected
    bShape,                \* quickBook: which fields params.roomStay carries
    bUpstream,             \* the room stays the pricing engine answers with now
    bPc,                   \* quickBook: where the call is
    bGet,                  \* fetchRoomStays: the primary (GET) call
    bPost,                 \* fetchRoomStays: the alternate (POST) call
    bRq,                   \* quickBook: roomStaysRq[0].checksum
    bVerifySent,           \* history: the checksum of the verify request
    bCreateSent,           \* history: the checksum of the create request
    bVerify,               \* history: what verifyBooking was answered with
    bToken,                \* history: createBookingToken of the create request
    bOutcome,              \* quickBook: how the call ended
    kReq,                  \* history: the pricing requests as their callers supplied them
    kGuests,               \* getRoomStaysWithDedup: guests.childAges of each call, as it is now
    kPc,                   \* getRoomStaysWithDedup: where each call is
    kKey,                  \* getRoomStaysWithDedup: requestKey of each call
    kSent                  \* history: the childAges parameters of each call's GET

tokenVars == <<now, expiresIn, memoryToken, memoryTokenExpiresAt, refreshingPromise,
               tokenStore, gat, callers, issued, tokenRequests,
               tokenFailures>>

dedupVars == <<roomStaysCache, inFlightRequests, fetches, dcalls>>

contentVars == <<ttlElapsed, ccalls>>

searchVars == <<sIds, sPc, sI, sOut, sQueried, sFailed, sEncountered>>

syncVars == <<isSyncing, geoCities, runs>>

hydrateVars == <<hN, hPc, hJ, hI, hMisses, hItem, hSeen, hResult>>

listingVars == <<lOffset, lLimit, lNights, lContent, lCheapest, lPc, lCards>>

offersVars == <<oStays, oDays, oPc, oOffers, oMinPrice>>

proxyVars == <<pUrl, pBase, pPc, pDecoded, pProxy, pProxy2>>

imageVars == <<iFiles, iWrites, icalls>>

bookingVars == <<bChosen, bShape, bUpstream, bPc, bGet, bPost, bRq, bVerifySent,
                 bCreateSent, bVerify, bToken, bOutcome>>

keyVars == <<kReq, kGuests, kPc, kKey, kSent>>

vars == <<tokenVars, redisQ, dedupVars, contentCache, contentVars, searchVars,
          syncVars, hydrateVars, listingVars, offersVars, proxyVars,
          imageVars, bookingVars, keyVars>>

\* what the operations of one service leave alone
nonTokenVars == <<dedupVars, contentCache, contentVars, searchVars, syncVars,
          hydrateVars, listingVars, offersVars, proxyVars, imageVars,
          bookingVars, keyVars>>
nonDedupVars == <<tokenVars, contentCache, contentVars, searchVars, syncVars,
          hydrateVars, listingVars, offersVars, proxyVars, imageVars,
          bookingVars, keyVars>>
nonContentVars == <<tokenVars, dedupVars, searchVars, syncVars, hydrateVars,
          listingVars, offersVars, proxyVars, imageVars, bookingVars,
          keyVars>>
nonSearchVars == <<tokenVars, redisQ, dedupVars, contentCache, contentVars, syncVars,
          hydrateVars, listingVars, offersVars, proxyVars, imageVars,
          bookingVars, keyVars>>
nonSyncVars == <<tokenVars, redisQ, dedupVars, contentVars, searchVars,
          hydrateVars, listingVars, offersVars, proxyVars, imageVars,
          bookingVars, keyVars>>
nonHydrateVars == <<tokenVars, redisQ, dedupVars, contentVars, searchVars, syncVars,
          listingVars, offersVars, proxyVars, imageVars, bookingVars,
          keyVars>>
nonListingVars == <<tokenVars, redisQ, dedupVars, contentCache, contentVars, searchVars,
                   syncVars, hydrateVars, offersVars, proxyVars, imageVars,
          bookingVars, keyVars>>
nonOffersVars == <<tokenVars, redisQ, dedupVars, contentCache, contentVars, searchVars,
                  syncVars, hydrateVars, listingVars, proxyVars, imageVars,
          bookingVars, keyVars>>
nonProxyVars == <<tokenVars, redisQ, dedupVars, contentCache, contentVars, searchVars,
                 syncVars, hydrateVars, listingVars, offersVars, imageVars,
          bookingVars, keyVars>>
nonImageVars == <<tokenVars, redisQ, dedupVars, contentCache, contentVars, searchVars,
                 syncVars, hydrateVars, listingVars, offersVars, proxyVars,
          bookingVars, keyVars>>
nonBookingVars == <<tokenVars, redisQ, dedupVars, contentCache, contentVars, searchVars,
                   syncVars, hydrateVars, listingVars, offersVars, proxyVars,
                   imageVars, keyVars>>
nonKeyVars == <<tokenVars, redisQ, dedupVars, contentCache, contentVars, searchVars,
               syncVars, hydrateVars, listingVars, offersVars, proxyVars,
               imageVars, bookingVars>>

----------------------------------------------------------------------------
(* Bounds of the model *)

NumCallers == 2      \* callers of the OAuthService in one behaviour
ClockStep == 60      \* seconds the clock advances in one Tick
MaxTime == 120       \* the clock stops here

NumDedupCalls == 2   \* calls of getRoomStaysWithDedup in one behaviour
NumProperties == 2   \* property ids
NumContentCalls == 2 \* calls of getPropertyContent in one behaviour
NumContentIds == 1   \* property ids those calls ask for
NumHotels == 6       \* property ids that may have cached content
MaxOffers == 2       \* room stays in one answer of the pricing search
MaxCachedIds == 1    \* ids of a getContentForIds call that are cached already
NumListingIds == 3   \* property ids of the city in getHotelsList
MaxStays == 3        \* room stays of the property in getPropertyOffers
MaxPieces == 2       \* pieces an image URL is made of, after https://h/
NumImageCalls == 2   \* calls of getImageByEncodedUrl in one behaviour
MaxBookingOffers == 2 \* room stays the pricing engine answers quickBook with
NumRuns == 2         \* invocations of handleNightlySync that are open at once

(* Program constants *)

SafetyMargin == 120  \* expires_in - 120
MinTtl == 60         \* Math.max(..., 60)
RoomStaysTtl == 300  \* setJson(cacheKey, roomStays, 300)
CHUNK == 200         \* const CHUNK = 200
PARALLEL == 5        \* const PARALLEL = 5 (syncHotelsContent)
CONTENT_PARALLEL == 10 \* const PARALLEL = 10 (getContentForIds)

(* Inputs *)

ExpiresInValues == {100, 240}   \* token lifetimes the token endpoint may be configured with

Null == 0            \* null (a token id is a positive number)
Err == -1            \* a rejected promise ('OAuth authentication failed')

Max(a, b) == IF a >= b THEN a ELSE b

----------------------------------------------------------------------------
(* OAuthService *)

\* const ttl = Math.max(expires_in - 120, 60)
TokenTtl(expires_in) == Max(expires_in - SafetyMargin, MinTtl)

\* redisService.get(tokenCacheKey): an entry past its TTL is gone
StoreGet(entry, t) == IF entry.tok # Null /\ t < entry.exp THEN entry.tok ELSE Null

EmptyEntry == [tok |-> Null, exp |-> 0]

\* the memory check of getValidAccessToken
MemoryFresh(mem, exp, t) ==
    /\ mem # Null
    /\ (exp = Null \/ t < exp)

IdleCaller ==
    [op |-> "none", pc |-> "idle", phase |-> "none", seen |-> Null,
     waitOn |-> 0, retry |-> FALSE, sends |-> 0, refreshes |-> 0,
     sentTok |-> Null, refTok |-> Null, result |-> Null, retAt |-> 0,
     lastResp |-> "none", outcome |-> "none", conc |-> FALSE, old |-> {}]

\* the request leaves with `Authorization: Bearer ${token}`
SendUpstream(c, tok) ==
    [c EXCEPT !.pc = "sent", !.sentTok = tok, !.sends = @ + 1]

RECURSIVE GvStart(_, _, _, _, _)
RECURSIVE Deliver(_, _, _, _, _, _)

GvStartStoreFirst(c, mem, exp, entry, t) ==
    [c EXCEPT !.pc = "gv_get", !.seen = StoreGet(entry, t)]

\* getValidAccessToken() up to its first await, called by c at time t with
\* the memory tier (mem, exp) and the store entry as they are then
GvStart(c, mem, exp, entry, t) ==
    IF MemoryFresh(mem, exp, t)
    THEN Deliver(c, mem, mem, exp, entry, t)
    ELSE [c EXCEPT !.pc = "gv_get", !.seen = StoreGet(entry, t)]

\* getValidAccessToken() settles with v (a token or Err) for caller c: what
\* the code that awaited it does, up to its next suspension point
Deliver(c, v, mem, exp, entry, t) ==
    CASE c.op \in {"gv", "rt", "ga"} ->
            [c EXCEPT !.pc = "done", !.result = v, !.retAt = t]
      [] c.op = "rq" /\ c.phase \in {"pre1", "pre2"} ->
            \* request interceptor: a token error rejects the request
            IF v = Err
            THEN [c EXCEPT !.pc = "done", !.outcome = "OAuthFailed"]
            ELSE SendUpstream(c, v)
      [] c.op = "rq" /\ c.phase = "refresh" ->
            \* response interceptor, after `await this.refreshToken()`
            IF v = Err
            THEN \* catch (e) { logger.error } ; return Promise.reject(error)
                 [c EXCEPT !.pc = "done", !.refTok = Err, !.outcome = "Http401"]
            ELSE \* return this.api.request(original): the interceptors run again
                 GvStart([c EXCEPT !.refTok = v, !.phase = "pre2"], mem, exp, entry, t)

\* refreshToken() up to its first await: `await this.redisService.del(...)`
\* (old: history, the tokens the two tiers hold when it is called)
RefreshStart(c) ==
    [c EXCEPT !.pc = "rt_del", !.refreshes = @ + 1,
              !.old = {memoryToken, StoreGet(tokenStore, now)} \ {Null}]

WaitsOnStore(c) == c.pc \in {"gv_get", "rt_del"}

Started == {p \in 1..NumCallers : callers[p].op # "none"}
Finished == {p \in Started : callers[p].pc = "done"}

----------------------------------------------------------------------------
TokenInit ==
    /\ now = 0
    /\ expiresIn \in ExpiresInValues
    /\ memoryToken = Null
    /\ memoryTokenExpiresAt = Null
    /\ refreshingPromise = Null
    /\ redisQ = <<>>
    /\ gat = <<>>
    /\ callers = [p \in 1..NumCallers |-> IdleCaller]
    /\ tokenRequests = 0
    /\ tokenFailures = 0
    \* the shared store is empty, or holds a token an earlier run of the
    \* service stored at time 0
    /\ \/ tokenStore = EmptyEntry /\ issued = <<>>
       \/ /\ issued = <<[at |-> 0, e |-> expiresIn, by |-> 0]>>
          /\ tokenStore = [tok |-> 1, exp |-> TokenTtl(expiresIn)]

\* a caller arrives: callers are numbered in the order they arrive
NextCaller(p) ==
    /\ p = Cardinality(Started) + 1
    /\ p <= NumCallers

NewCaller(op, phase) ==
    [IdleCaller EXCEPT !.op = op, !.phase = phase, !.conc = (Finished = {})]

Enqueue(q, p, c) == IF WaitsOnStore(c) THEN Append(q, <<"c", p>>) ELSE q

\* getAccessToken() up to its first await: `await this.redisService.get(...)`
NewGat(shared) ==
    [pc |-> "get", seen |-> StoreGet(tokenStore, now), tok |-> Null,
     ttl |-> 0, shared |-> shared]

DoneGat == [pc |-> "done", seen |-> Null, tok |-> Null, ttl |-> 0, shared |-> FALSE]

RefreshInFlightIgnored(rp) == FALSE

\* `if (!this.refreshingPromise)`: a refresh is in flight, so the caller
\* awaits it instead of starting its own
RefreshInFlight(rp) == rp # Null

AnyFailure(r) == r # "ok"

\* `error.response?.status === 401 || error.response?.status === 403`
IsAuthFailure(r) == r = "401"

MayRetryAlways(c) == TRUE

\* `!original._retry`: the response interceptor replays a request only once
MayRetry(c) == ~c.retry

\* the continuations of everything that awaited run g, run in caller order
DeliverAll(g, v, mem, exp, entry, t) ==
    [p \in 1..NumCallers |->
        IF callers[p].pc = "await" /\ callers[p].waitOn = g
        THEN Deliver(callers[p], v, mem, exp, entry, t)
        ELSE callers[p]]

RECURSIVE EnqueueWoken(_, _, _)
EnqueueWoken(q, new, p) ==
    IF p > NumCallers THEN q
    ELSE EnqueueWoken(
            IF callers[p].pc = "await" /\ WaitsOnStore(new[p])
            THEN Append(q, <<"c", p>>) ELSE q,
            new, p + 1)

SettleKeepsMarker(g, v, mem, exp, q) ==
    LET new == DeliverAll(g, v, mem, exp, tokenStore, now) IN
    /\ gat' = [gat EXCEPT ![g] = DoneGat]
    /\ refreshingPromise' = IF v = Err THEN refreshingPromise
                            ELSE IF gat[g].shared THEN Null ELSE refreshingPromise
    /\ callers' = new
    /\ redisQ' = EnqueueWoken(q, new, 1)

\* run g settles with v: `.finally(() => { this.refreshingPromise = null })`
\* for the shared run, then the awaiting callers continue
Settle(g, v, mem, exp, q) ==
    LET new == DeliverAll(g, v, mem, exp, tokenStore, now) IN
    /\ gat' = [gat EXCEPT ![g] = DoneGat]
    /\ refreshingPromise' = IF gat[g].shared THEN Null ELSE refreshingPromise
    /\ callers' = new
    /\ redisQ' = EnqueueWoken(q, new, 1)

----------------------------------------------------------------------------
(* Operations of the OAuthService *)

\* someone calls getValidAccessToken()
CallGetValidAccessToken(p) ==
    /\ NextCaller(p)
    /\ LET c == GvStart(NewCaller("gv", "none"), memoryToken,
                        memoryTokenExpiresAt, tokenStore, now) IN
        /\ callers' = [callers EXCEPT ![p] = c]
        /\ redisQ' = Enqueue(redisQ, p, c)
    /\ UNCHANGED <<now, expiresIn, memoryToken, memoryTokenExpiresAt, refreshingPromise,
                   tokenStore, gat, issued, tokenRequests, tokenFailures>>
    /\ UNCHANGED nonTokenVars

\* someone calls refreshToken(): the store entry is deleted first
CallRefreshToken(p) ==
    /\ NextCaller(p)
    /\ LET c == RefreshStart(NewCaller("rt", "none")) IN
        /\ callers' = [callers EXCEPT ![p] = c]
        /\ redisQ' = Enqueue(redisQ, p, c)
    /\ tokenStore' = EmptyEntry
    /\ UNCHANGED <<now, expiresIn, memoryToken, memoryTokenExpiresAt, refreshingPromise,
                   gat, issued, tokenRequests, tokenFailures>>
    /\ UNCHANGED nonTokenVars

\* someone calls getAccessToken() directly, or createAuthorizedClient()
CallGetAccessToken(p) ==
    /\ NextCaller(p)
    /\ gat' = Append(gat, NewGat(FALSE))
    /\ callers' = [callers EXCEPT ![p] =
            [NewCaller("ga", "none") EXCEPT !.pc = "await", !.waitOn = Len(gat) + 1]]
    /\ redisQ' = Append(redisQ, <<"g", Len(gat) + 1>>)
    /\ UNCHANGED <<now, expiresIn, memoryToken, memoryTokenExpiresAt, refreshingPromise,
                   tokenStore, issued, tokenRequests, tokenFailures>>
    /\ UNCHANGED nonTokenVars

\* someone makes an authorized call (request/get/post/put/delete): the
\* request interceptor asks for a token
CallRequest(p) ==
    /\ NextCaller(p)
    /\ LET c == GvStart(NewCaller("rq", "pre1"), memoryToken,
                        memoryTokenExpiresAt, tokenStore, now) IN
        /\ callers' = [callers EXCEPT ![p] = c]
        /\ redisQ' = Enqueue(redisQ, p, c)
    /\ UNCHANGED <<now, expiresIn, memoryToken, memoryTokenExpiresAt, refreshingPromise,
                   tokenStore, gat, issued, tokenRequests, tokenFailures>>
    /\ UNCHANGED nonTokenVars

\* getValidAccessToken() after `await this.redisService.get(...)`
GvStoreReply(p) ==
    /\ redisQ # <<>> /\ Head(redisQ) = <<"c", p>>
    /\ callers[p].pc = "gv_get"
    /\ LET c == callers[p] IN
        IF c.seen # Null
        THEN \* adopt the store's token
             LET d == Deliver(c, c.seen, c.seen, Null, tokenStore, now) IN
             /\ memoryToken' = c.seen
             /\ memoryTokenExpiresAt' = Null
             /\ callers' = [callers EXCEPT ![p] = d]
             /\ redisQ' = Enqueue(Tail(redisQ), p, d)
             /\ UNCHANGED <<refreshingPromise, gat>>
        ELSE IF RefreshInFlight(refreshingPromise)
        THEN /\ callers' = [callers EXCEPT ![p] =
                    [c EXCEPT !.pc = "await", !.waitOn = refreshingPromise]]
             /\ redisQ' = Tail(redisQ)
             /\ UNCHANGED <<memoryToken, memoryTokenExpiresAt, refreshingPromise, gat>>
        ELSE \* this.refreshingPromise = this.getAccessToken().finally(...)
             /\ gat' = Append(gat, NewGat(TRUE))
             /\ refreshingPromise' = Len(gat) + 1
             /\ callers' = [callers EXCEPT ![p] =
                    [c EXCEPT !.pc = "await", !.waitOn = Len(gat) + 1]]
             /\ redisQ' = Append(Tail(redisQ), <<"g", Len(gat) + 1>>)
             /\ UNCHANGED <<memoryToken, memoryTokenExpiresAt>>
    /\ UNCHANGED <<now, expiresIn, tokenStore, issued, tokenRequests, tokenFailures>>
    /\ UNCHANGED nonTokenVars

RefreshKeepsMemory(p) ==
    /\ redisQ # <<>> /\ Head(redisQ) = <<"c", p>>
    /\ callers[p].pc = "rt_del"
    /\ LET c == GvStart(callers[p], memoryToken, memoryTokenExpiresAt, tokenStore, now) IN
        /\ callers' = [callers EXCEPT ![p] = c]
        /\ redisQ' = Enqueue(Tail(redisQ), p, c)
    /\ UNCHANGED <<now, expiresIn, memoryToken, memoryTokenExpiresAt, refreshingPromise,
                   tokenStore, gat, issued, tokenRequests, tokenFailures>>
    /\ UNCHANGED nonTokenVars

\* refreshToken() after `await this.redisService.del(...)`
RefreshDelReply(p) ==
    /\ redisQ # <<>> /\ Head(redisQ) = <<"c", p>>
    /\ callers[p].pc = "rt_del"
    /\ memoryToken' = Null
    /\ memoryTokenExpiresAt' = Null
    /\ LET c == GvStart(callers[p], Null, Null, tokenStore, now) IN
        /\ callers' = [callers EXCEPT ![p] = c]
        /\ redisQ' = Enqueue(Tail(redisQ), p, c)
    /\ UNCHANGED <<now, expiresIn, refreshingPromise, tokenStore, gat, issued,
                   tokenRequests, tokenFailures>>
    /\ UNCHANGED nonTokenVars

\* getAccessToken() after `await this.redisService.get(...)`
GatStoreGetReply(g) ==
    /\ redisQ # <<>> /\ Head(redisQ) = <<"g", g>>
    /\ gat[g].pc = "get"
    /\ IF gat[g].seen # Null
       THEN /\ memoryToken' = gat[g].seen
            /\ memoryTokenExpiresAt' = Null
            /\ Settle(g, gat[g].seen, gat[g].seen, Null, Tail(redisQ))
            /\ UNCHANGED tokenRequests
       ELSE \* this.httpClient.post(this.tokenUrl, ...)
            /\ gat' = [gat EXCEPT ![g].pc = "post"]
            /\ tokenRequests' = tokenRequests + 1
            /\ redisQ' = Tail(redisQ)
            /\ UNCHANGED <<memoryToken, memoryTokenExpiresAt, refreshingPromise, callers>>
    /\ UNCHANGED <<now, expiresIn, tokenStore, issued, tokenFailures>>
    /\ UNCHANGED nonTokenVars

\* the token endpoint answers { access_token, expires_in }
TokenResponse(g) ==
    /\ gat[g].pc = "post"
    /\ LET expires_in == expiresIn
           ttl == TokenTtl(expires_in)
           tok == Len(issued) + 1 IN
        /\ issued' = Append(issued, [at |-> now, e |-> expires_in, by |-> g])
        /\ tokenStore' = [tok |-> tok, exp |-> now + ttl]
        /\ gat' = [gat EXCEPT ![g].pc = "set", ![g].tok = tok, ![g].ttl = ttl]
        /\ redisQ' = Append(redisQ, <<"g", g>>)
    /\ UNCHANGED <<now, expiresIn, memoryToken, memoryTokenExpiresAt, refreshingPromise,
                   callers, tokenRequests, tokenFailures>>
    /\ UNCHANGED nonTokenVars

\* the token request fails: throw new Error('OAuth authentication failed')
TokenFailure(g) ==
    /\ gat[g].pc = "post"
    /\ tokenFailures' = tokenFailures + 1
    /\ Settle(g, Err, memoryToken, memoryTokenExpiresAt, redisQ)
    /\ UNCHANGED <<now, expiresIn, memoryToken, memoryTokenExpiresAt, tokenStore, issued,
                   tokenRequests>>
    /\ UNCHANGED nonTokenVars

\* getAccessToken() after `await this.redisService.set(...)`
GatStoreSetReply(g) ==
    /\ redisQ # <<>> /\ Head(redisQ) = <<"g", g>>
    /\ gat[g].pc = "set"
    /\ memoryToken' = gat[g].tok
    /\ memoryTokenExpiresAt' = now + gat[g].ttl
    /\ Settle(g, gat[g].tok, gat[g].tok, now + gat[g].ttl, Tail(redisQ))
    /\ UNCHANGED <<now, expiresIn, tokenStore, issued, tokenRequests, tokenFailures>>
    /\ UNCHANGED nonTokenVars

\* the upstream API answers an authorized request
UpstreamResponse(p, r) ==
    /\ callers[p].pc = "sent"
    /\ LET c == [callers[p] EXCEPT !.lastResp = r] IN
        IF r = "ok"
        THEN /\ callers' = [callers EXCEPT ![p] = [c EXCEPT !.pc = "done", !.outcome = "ok"]]
             /\ UNCHANGED <<tokenStore, redisQ>>
        ELSE IF IsAuthFailure(r) /\ MayRetry(c)
        THEN \* original._retry = true; await this.refreshToken()
             /\ callers' = [callers EXCEPT ![p] =
                    RefreshStart([c EXCEPT !.retry = TRUE, !.phase = "refresh"])]
             /\ tokenStore' = EmptyEntry
             /\ redisQ' = Append(redisQ, <<"c", p>>)
        ELSE \* return Promise.reject(error)
             /\ callers' = [callers EXCEPT ![p] =
                    [c EXCEPT !.pc = "done",
                              !.outcome = IF r = "401" THEN "Http401" ELSE "HttpOther"]]
             /\ UNCHANGED <<tokenStore, redisQ>>
    /\ UNCHANGED <<now, expiresIn, memoryToken, memoryTokenExpiresAt, refreshingPromise,
                   gat, issued, tokenRequests, tokenFailures>>
    /\ UNCHANGED nonTokenVars

\* time passes.  An operation ends within the clock step it began in (the
\* HTTP clients time out after 10 s and 30 s), so the clock advances between
\* operations
Tick ==
    /\ Finished = Started
    /\ now + ClockStep <= MaxTime
    /\ now' = now + ClockStep
    /\ UNCHANGED <<expiresIn, memoryToken, memoryTokenExpiresAt, refreshingPromise,
                   tokenStore, redisQ, gat, callers, issued, tokenRequests,
                   tokenFailures>>
    /\ UNCHANGED nonTokenVars

TokenNext ==
    \/ \E p \in 1..NumCallers : CallGetValidAccessToken(p)
    \/ \E p \in 1..NumCallers : CallRefreshToken(p)
    \/ \E p \in 1..NumCallers : CallGetAccessToken(p)
    \/ \E p \in 1..NumCallers : CallRequest(p)
    \/ \E p \in 1..NumCallers : GvStoreReply(p)
    \/ \E p \in 1..NumCallers : RefreshDelReply(p)
    \/ \E g \in 1..Len(gat) : GatStoreGetReply(g)
    \/ \E g \in 1..Len(gat) : TokenResponse(g)
    \/ \E g \in 1..Len(gat) : TokenFailure(g)
    \/ \E g \in 1..Len(gat) : GatStoreSetReply(g)
    \/ \E p \in 1..NumCallers, r \in {"ok", "401", "other"} : UpstreamResponse(p, r)
    \/ Tick

\* the OAuthService at rest (the specifications of the other services)
TokenIdle ==
    /\ now = 0 /\ expiresIn = 0 /\ memoryToken = Null
    /\ memoryTokenExpiresAt = Null /\ refreshingPromise = Null
    /\ tokenStore = EmptyEntry /\ gat = <<>>
    /\ callers = <<>> /\ issued = <<>> /\ tokenRequests = 0
    /\ tokenFailures = 0

----------------------------------------------------------------------------
(* Properties of the OAuthService, checked under SpecToken *)

Tokens == 1..Len(issued)

\* the store held no token when the service started
ColdStart == \A i \in Tokens : issued[i].by # 0

\* every caller so far called getValidAccessToken() and arrived before any
\* of them had returned
AllConcurrentGv ==
    \A p \in Started : callers[p].op = "gv" /\ callers[p].conc

\* C1: concurrent callers of getValidAccessToken that find no token in
\* memory or in the store cause exactly one request to the token endpoint,
\* and all of them receive the token that request returned.
C1_SingleFlight ==
    (AllConcurrentGv /\ ColdStart /\ tokenFailures = 0) =>
        /\ tokenRequests <= 1
        /\ \A p \in Finished :
            /\ tokenRequests = 1
            /\ callers[p].result \in Tokens
            /\ \A q \in Finished : callers[q].result = callers[p].result

C1_Witness ==
    /\ AllConcurrentGv /\ ColdStart /\ tokenFailures = 0
    /\ Cardinality(Finished) >= 2
    /\ tokenRequests = 1
    /\ \A p \in Finished : callers[p].result = 1

\* C3: getValidAccessToken never returns a token once its cache lifetime
\* E - margin (the TTL it was stored with) has elapsed since it was issued.
C3_NoReuseAfterTtl ==
    \A p \in Finished :
        (callers[p].op = "gv" /\ callers[p].result \in Tokens) =>
            callers[p].retAt <
                issued[callers[p].result].at + TokenTtl(issued[callers[p].result].e)

\* C20: every token is stored, in the shared store and in the in-process
\* cache alike, with a TTL that is its expires_in minus a safety margin of
\* at least 60 seconds.
C20_TtlMarginAtLeast60 ==
    /\ \A g \in DOMAIN gat :
          gat[g].pc = "set" => gat[g].ttl <= issued[gat[g].tok].e - 60
    /\ tokenStore.tok # Null =>
          tokenStore.exp - issued[tokenStore.tok].at <= issued[tokenStore.tok].e - 60

\* the callers that await run g of getAccessToken()
Awaiting(g) == {p \in Started : callers[p].pc = "await" /\ callers[p].waitOn = g}

\* the token request of run g fails in this step
TokenRequestFails(g) ==
    /\ g \in 1..Len(gat) /\ gat[g].pc = "post" /\ gat'[g].pc = "done"
    /\ tokenFailures' = tokenFailures + 1

\* C21: when the token request fails, every caller awaiting that refresh
\* gets the failure (none of them obtains a token or sends its request),
\* neither cache tier is written, and the refresh marker is cleared: it
\* never names a run that has ended, so a later getValidAccessToken call
\* starts a new token request.
C21_FailedRefresh ==
    /\ [](refreshingPromise # Null =>
            (refreshingPromise \in 1..Len(gat) /\ gat[refreshingPromise].pc # "done"))
    /\ [][\A g \in 1..Len(gat) : TokenRequestFails(g) =>
            /\ \A p \in Awaiting(g) :
                /\ callers'[p].pc = "done"
                /\ callers'[p].sends = callers[p].sends
                /\ callers[p].op \in {"gv", "rt", "ga"} => callers'[p].result = Err
                /\ callers[p].op = "rq" =>
                        callers'[p].outcome \in {"OAuthFailed", "Http401"}
            /\ memoryToken' = memoryToken
            /\ memoryTokenExpiresAt' = memoryTokenExpiresAt
            /\ tokenStore' = tokenStore
            /\ gat[g].shared => refreshingPromise' = Null]_vars

\* two concurrent getValidAccessToken callers awaited the refresh that failed
C21_Witness ==
    /\ tokenFailures = 1 /\ tokenRequests = 1
    /\ refreshingPromise = Null
    /\ memoryToken = Null /\ tokenStore = EmptyEntry
    /\ Finished = 1..NumCallers
    /\ \A p \in Finished :
        callers[p].op = "gv" /\ callers[p].waitOn = 1 /\ callers[p].result = Err

\* the getAccessToken() runs that getValidAccessToken() started and that
\* have sent their token request
RequestedByGv == {g \in 1..Len(gat) : gat[g].shared /\ gat[g].pc \in {"post", "set"}}

\* C28: getValidAccessToken consults memory, then the store, then the token
\* endpoint: a call that finds a fresh token in memory returns it without
\* issuing a store command, and a token request is sent only after the
\* store lookups of the call that started it found no token.
C28_TierOrder ==
    /\ [][\A p \in 1..NumCallers :
            (/\ callers[p].op = "none" /\ callers'[p].op = "gv"
             /\ MemoryFresh(memoryToken, memoryTokenExpiresAt, now)) =>
                /\ callers'[p].pc = "done"
                /\ callers'[p].result = memoryToken
                /\ redisQ' = redisQ]_vars
    /\ [](\A g \in RequestedByGv :
            /\ gat[g].seen = Null
            /\ \A p \in Awaiting(g) : callers[p].seen = Null)
    /\ [](\A p \in Started :
            (callers[p].op = "gv" /\ callers[p].pc \in {"gv_get", "await"}) =>
                callers[p].result = Null)

\* one call was answered from memory without a store lookup, after another
\* had gone through the store to the token endpoint
C28_Witness ==
    \E p, q \in Finished :
        /\ callers[p].op = "gv" /\ callers[q].op = "gv"
        /\ callers[q].waitOn # 0 /\ callers[q].result \in Tokens
        /\ issued[callers[q].result].by = callers[q].waitOn
        /\ callers[p].waitOn = 0 /\ callers[p].seen = Null
        /\ callers[p].result = callers[q].result

\* C29: refreshToken() invalidates both tiers before it obtains a token
\* again: the token it returns is never one that the memory or the store
\* held when it was called, whatever getValidAccessToken calls run
\* concurrently.
C29_RefreshNeverServesOld ==
    \A p \in Finished :
        /\ (callers[p].op = "rt" /\ callers[p].result \in Tokens) =>
                callers[p].result \notin callers[p].old
        /\ (callers[p].op = "rq" /\ callers[p].refTok \in Tokens) =>
                callers[p].refTok \notin callers[p].old

\* refreshToken() was called while a getValidAccessToken call was reading
\* the token the store then held, and returned a newer token
C29_Witness ==
    \E p, q \in Finished :
        /\ callers[p].op = "rt" /\ callers[p].conc
        /\ callers[p].old # {} /\ callers[p].result \in Tokens
        /\ callers[q].op = "gv" /\ callers[q].result \in callers[p].old

\* the upstream API answers the request of caller p with a failure other
\* than 401/403 in this step
OtherFailure(p) ==
    /\ callers[p].pc = "sent"
    /\ callers'[p] # callers[p]
    /\ callers'[p].lastResp = "other"

\* C30: an upstream failure other than 401/403 is surfaced to the caller
\* as it is: refreshToken is not invoked, the request is not replayed and
\* neither token cache tier changes.
C30_OtherFailureSurfaced ==
    [][\A p \in 1..NumCallers : OtherFailure(p) =>
            /\ callers'[p].pc = "done"
            /\ callers'[p].outcome = "HttpOther"
            /\ callers'[p].refreshes = callers[p].refreshes
            /\ callers'[p].sends = callers[p].sends
            /\ callers'[p].retry = callers[p].retry
            /\ memoryToken' = memoryToken
            /\ memoryTokenExpiresAt' = memoryTokenExpiresAt
            /\ tokenStore' = tokenStore
            /\ redisQ' = redisQ
            /\ tokenRequests' = tokenRequests]_vars

\* a request failed with such an error while both tiers held a token
C30_Witness ==
    \E p \in Started :
        /\ callers[p].op = "rq" /\ callers[p].pc = "done" /\ callers[p].outcome = "HttpOther"
        /\ callers[p].sends = 1 /\ callers[p].refreshes = 0
        /\ memoryToken = callers[p].sentTok
        /\ tokenStore.tok = callers[p].sentTok

Requests == {p \in Started : callers[p].op = "rq"}

Surfaced(r) ==
    CASE r = "ok" -> "ok" [] r = "401" -> "Http401" [] r = "other" -> "HttpOther"

\* C4 (as amended): an authorized call that receives a 401/403 invokes
\* refreshToken() once; when the refresh returns a token the request is
\* replayed exactly once with that token and the outcome of the replay is
\* what the caller gets; when the refresh fails the request is not
\* replayed.  No call is sent upstream more than twice.
C4_RetryOnceAfterRefresh ==
    \A p \in Requests :
        LET c == callers[p] IN
        /\ c.sends <= 2
        /\ c.refreshes = (IF c.retry THEN 1 ELSE 0)
        /\ c.sends = 2 => (c.retry /\ c.refTok \in Tokens /\ c.sentTok = c.refTok)
        /\ (c.pc = "done" /\ c.retry /\ c.refTok \in Tokens) =>
                (c.sends = 2 /\ c.outcome = Surfaced(c.lastResp))
        /\ (c.pc = "done" /\ c.retry /\ c.refTok = Err) => c.sends = 1

C4_Witness ==
    \E p \in Requests :
        /\ callers[p].pc = "done" /\ callers[p].retry
        /\ callers[p].sends = 2
        /\ callers[p].outcome = "Http401"

\* C4 as first stated: every call that received a 401/403 is replayed
\* exactly once.
C4_AlwaysReplayed ==
    \A p \in Requests :
        (callers[p].pc = "done" /\ callers[p].retry) => callers[p].sends = 2

\* C9: when the forced refresh after a 401/403 fails, the caller of the
\* authorized call gets the token-refresh failure.
C9_RefreshFailurePropagates ==
    \A p \in Requests :
        (callers[p].pc = "done" /\ callers[p].refTok = Err) =>
            callers[p].outcome = "OAuthFailed"

\* C10: at most one request to the token endpoint is outstanding.
C10_OneTokenRequestOutstanding ==
    Cardinality({g \in 1..Len(gat) : gat[g].pc = "post"}) <= 1

----------------------------------------------------------------------------
(* OfferService: getRoomStaysWithDedup and fetchRoomStays.  The fingerprint *)
(* of a call is its property id; dates, guests and currency are the same   *)
(* in every call.                                                           *)

Properties == 1..NumProperties

Stay(pid, n) == [propertyId |-> pid, offer |-> n]

\* the room-stay lists the pricing endpoint answers with
ResponseLists == {<<>>, <<Stay(1, 1)>>, <<Stay(1, 1), Stay(2, 1), Stay(1, 2)>>}

\* (result?.roomStays ?? []).filter((rs) => rs.propertyId === propertyId)
FilterByProperty(list, pid) == SelectSeq(list, LAMBDA rs : rs.propertyId = pid)

CacheMiss == [has |-> FALSE, val |-> <<>>, ttl |-> 0]
CacheHit(list) == [has |-> TRUE, val |-> list, ttl |-> RoomStaysTtl]

IdleCall ==
    [pc |-> "idle", pid |-> 0, seen |-> CacheMiss, waitOn |-> 0,
     outcome |-> "none", result |-> <<>>, err |-> 0, conc |-> FALSE]

DStarted == {p \in 1..NumDedupCalls : dcalls[p].pc # "idle"}
DFinished == {p \in DStarted : dcalls[p].pc = "done"}

Resolve(c, list) == [c EXCEPT !.pc = "done", !.outcome = "ok", !.result = list]
Reject(c, f) == [c EXCEPT !.pc = "done", !.outcome = "error", !.err = f]

DedupInit ==
    /\ roomStaysCache = [k \in Properties |-> CacheMiss]
    /\ inFlightRequests = [k \in Properties |-> 0]
    /\ fetches = <<>>
    /\ dcalls = [p \in 1..NumDedupCalls |-> IdleCall]

DedupIdle ==
    /\ roomStaysCache = <<>> /\ inFlightRequests = <<>>
    /\ fetches = <<>> /\ dcalls = <<>>

\* getRoomStaysWithDedup() up to its first await: the key is built and
\* `await this.redis.getJson(cacheKey)` is issued
CallGetRoomStays(p, pid) ==
    /\ p = Cardinality(DStarted) + 1
    /\ p <= NumDedupCalls
    /\ dcalls' = [dcalls EXCEPT ![p] =
            [IdleCall EXCEPT !.pc = "cache_get", !.pid = pid,
                             !.seen = roomStaysCache[pid],
                             !.conc = (\A q \in DFinished : dcalls[q].pid # pid)]]
    /\ redisQ' = Append(redisQ, <<"d", p>>)
    /\ UNCHANGED <<roomStaysCache, inFlightRequests, fetches>>
    /\ UNCHANGED nonDedupVars

\* `const inFlight = this.inFlightRequests.get(requestKey); if (inFlight)`
HasInFlight(entry) == entry # 0

\* after the cache lookup: cache hit, or follow the in-flight fetch, or
\* start fetchRoomStays() and register it
DedupCacheReply(p) ==
    /\ redisQ # <<>> /\ Head(redisQ) = <<"d", p>>
    /\ dcalls[p].pc = "cache_get"
    /\ redisQ' = Tail(redisQ)
    /\ LET c == dcalls[p]
           f == inFlightRequests[c.pid] IN
        IF c.seen.has
        THEN /\ dcalls' = [dcalls EXCEPT ![p] = Resolve(c, c.seen.val)]
             /\ UNCHANGED <<inFlightRequests, fetches>>
        ELSE IF HasInFlight(f)
        THEN /\ dcalls' = [dcalls EXCEPT ![p] =
                    IF fetches[f].pc = "ok"
                    THEN Resolve(c, FilterByProperty(fetches[f].resp, c.pid))
                    ELSE [c EXCEPT !.pc = "follow", !.waitOn = f]]
             /\ UNCHANGED <<inFlightRequests, fetches>>
        ELSE /\ fetches' = Append(fetches, [pid |-> c.pid, pc |-> "get", resp |-> <<>>])
             /\ inFlightRequests' = [inFlightRequests EXCEPT ![c.pid] = Len(fetches) + 1]
             /\ dcalls' = [dcalls EXCEPT ![p] =
                    [c EXCEPT !.pc = "own", !.waitOn = Len(fetches) + 1]]
    /\ UNCHANGED roomStaysCache
    /\ UNCHANGED nonDedupVars

Waiting(f, pc) == {p \in DStarted : dcalls[p].pc = pc /\ dcalls[p].waitOn = f}

\* finally { this.inFlightRequests.delete(requestKey) }
InFlightKept(map, k) == map

InFlightDelete(map, k) == [map EXCEPT ![k] = 0]

\* fetchRoomStays() resolves with resp: the owner filters, writes the cache
\* (`await this.redis.setJson(cacheKey, roomStays, 300)`); followers return
FetchResolves(f, resp) ==
    LET pid == fetches[f].pid
        list == FilterByProperty(resp, pid)
        owners == Waiting(f, "own") IN
    /\ dcalls' = [p \in 1..NumDedupCalls |->
            IF p \in owners
            THEN [dcalls[p] EXCEPT !.pc = "cache_set", !.result = list]
            ELSE IF p \in Waiting(f, "follow")
            THEN Resolve(dcalls[p], list)
            ELSE dcalls[p]]
    /\ roomStaysCache' = IF owners # {}
                         THEN [roomStaysCache EXCEPT ![pid] = CacheHit(list)]
                         ELSE roomStaysCache
    /\ redisQ' = IF owners # {}
                 THEN Append(redisQ, <<"d", CHOOSE p \in owners : TRUE>>)
                 ELSE redisQ
    /\ UNCHANGED inFlightRequests

FetchRejectsCachesEmpty(f) ==
    LET pid == fetches[f].pid IN
    /\ dcalls' = [p \in 1..NumDedupCalls |->
            IF p \in Waiting(f, "own") \cup Waiting(f, "follow")
            THEN Reject(dcalls[p], f)
            ELSE dcalls[p]]
    /\ inFlightRequests' = IF Waiting(f, "own") # {}
                           THEN InFlightDelete(inFlightRequests, pid)
                           ELSE inFlightRequests
    /\ roomStaysCache' = [roomStaysCache EXCEPT ![pid] = CacheHit(<<>>)]
    /\ UNCHANGED redisQ

\* fetchRoomStays() rejects: the owner's finally block deletes the entry
FetchRejects(f) ==
    LET pid == fetches[f].pid IN
    /\ dcalls' = [p \in 1..NumDedupCalls |->
            IF p \in Waiting(f, "own") \cup Waiting(f, "follow")
            THEN Reject(dcalls[p], f)
            ELSE dcalls[p]]
    /\ inFlightRequests' = IF Waiting(f, "own") # {}
                           THEN InFlightDelete(inFlightRequests, pid)
                           ELSE inFlightRequests
    /\ UNCHANGED <<roomStaysCache, redisQ>>

\* the primary GET .../room-stays?... answers
GetResponse(f, resp) ==
    /\ fetches[f].pc = "get"
    /\ fetches' = [fetches EXCEPT ![f].pc = "ok", ![f].resp = resp]
    /\ FetchResolves(f, resp)
    /\ UNCHANGED nonDedupVars

\* the primary GET throws: fall back to POST .../room-stays
GetError(f) ==
    /\ fetches[f].pc = "get"
    /\ fetches' = [fetches EXCEPT ![f].pc = "post"]
    /\ UNCHANGED <<roomStaysCache, inFlightRequests, dcalls, redisQ>>
    /\ UNCHANGED nonDedupVars

PostResponse(f, resp) ==
    /\ fetches[f].pc = "post"
    /\ fetches' = [fetches EXCEPT ![f].pc = "ok", ![f].resp = resp]
    /\ FetchResolves(f, resp)
    /\ UNCHANGED nonDedupVars

PostError(f) ==
    /\ fetches[f].pc = "post"
    /\ fetches' = [fetches EXCEPT ![f].pc = "failed"]
    /\ FetchRejects(f)
    /\ UNCHANGED nonDedupVars

\* the owner after `await this.redis.setJson(...)`: return roomStays, and
\* finally { this.inFlightRequests.delete(requestKey) }
DedupCacheSetReply(p) ==
    /\ redisQ # <<>> /\ Head(redisQ) = <<"d", p>>
    /\ dcalls[p].pc = "cache_set"
    /\ redisQ' = Tail(redisQ)
    /\ dcalls' = [dcalls EXCEPT ![p] = Resolve(dcalls[p], dcalls[p].result)]
    /\ inFlightRequests' = InFlightDelete(inFlightRequests, dcalls[p].pid)
    /\ UNCHANGED <<roomStaysCache, fetches>>
    /\ UNCHANGED nonDedupVars

\* the 300 s TTL of a cached result runs out
RoomStaysExpire(k) ==
    /\ roomStaysCache[k].has
    /\ roomStaysCache' = [roomStaysCache EXCEPT ![k] = CacheMiss]
    /\ UNCHANGED <<inFlightRequests, fetches, dcalls, redisQ>>
    /\ UNCHANGED nonDedupVars

DedupNext ==
    \/ \E p \in 1..NumDedupCalls, k \in Properties : CallGetRoomStays(p, k)
    \/ \E p \in 1..NumDedupCalls : DedupCacheReply(p)
    \/ \E f \in 1..Len(fetches), r \in ResponseLists : GetResponse(f, r)
    \/ \E f \in 1..Len(fetches) : GetError(f)
    \/ \E f \in 1..Len(fetches), r \in ResponseLists : PostResponse(f, r)
    \/ \E f \in 1..Len(fetches) : PostError(f)
    \/ \E p \in 1..NumDedupCalls : DedupCacheSetReply(p)
    \/ \E k \in Properties : RoomStaysExpire(k)

----------------------------------------------------------------------------
(* SearchService: the content cache (getPropertyContent and               *)
(* fetchAndCacheContent)                                                    *)

Hotels == 1..NumHotels

\* what the content endpoint answers with: a version newer than any cached
UpstreamContent == {2}

IdleContentCall ==
    [pc |-> "idle", id |-> 0, refresh |-> FALSE, seen |-> 0, after |-> {},
     fetches |-> 0, fetchFailed |-> FALSE, outcome |-> "none", data |-> 0,
     cached |-> FALSE, stale |-> FALSE]

CStarted == {p \in 1..NumContentCalls : ccalls[p].pc # "idle"}
CFinished == {p \in CStarted : ccalls[p].pc = "done"}

ContentInit ==
    /\ contentCache \in {f \in [Hotels -> {0, 1}] :
                            \A h \in Hotels : h > NumContentIds => f[h] = 0}
    /\ ttlElapsed = {}
    /\ ccalls = [p \in 1..NumContentCalls |-> IdleContentCall]

ContentIdle == ttlElapsed = {} /\ ccalls = <<>>

\* `if (cached && !opts?.refresh)`
UsesCache(seen, refresh) == seen # 0 /\ ~refresh

UsesCacheNever(seen, refresh) == FALSE

\* getPropertyContent() after fetchAndCacheContent() returned null:
\* the cached entry marked stale, or NotFoundException
NoFallback(c) == [c EXCEPT !.pc = "done", !.outcome = "NotFound"]

FallbackAlways(c) ==
    [c EXCEPT !.pc = "done", !.outcome = "ok", !.cached = TRUE,
              !.data = c.seen, !.stale = TRUE]

AfterFetchFailure(c) ==
    IF c.seen # 0
    THEN [c EXCEPT !.pc = "done", !.outcome = "ok", !.cached = TRUE,
                   !.data = c.seen, !.stale = TRUE]
    ELSE [c EXCEPT !.pc = "done", !.outcome = "NotFound"]

\* getPropertyContent(id, { refresh }) up to its first await:
\* `await this.redis.getJson(cacheKey)`
CallGetPropertyContent(p, id, refresh) ==
    /\ p = Cardinality(CStarted) + 1
    /\ p <= NumContentCalls
    /\ ccalls' = [ccalls EXCEPT ![p] =
            [IdleContentCall EXCEPT !.pc = "cache_get", !.id = id,
                                    !.refresh = refresh,
                                    !.seen = contentCache[id],
                                    !.after = CFinished]]
    /\ redisQ' = Append(redisQ, <<"k", p>>)
    /\ UNCHANGED <<contentCache, ttlElapsed>>
    /\ UNCHANGED nonContentVars

\* after the cache lookup: return the cached entry, or call
\* fetchAndCacheContent(id), which sends the content request
ContentCacheReply(p) ==
    /\ redisQ # <<>> /\ Head(redisQ) = <<"k", p>>
    /\ ccalls[p].pc = "cache_get"
    /\ redisQ' = Tail(redisQ)
    /\ LET c == ccalls[p] IN
        ccalls' = [ccalls EXCEPT ![p] =
            IF UsesCache(c.seen, c.refresh)
            THEN [c EXCEPT !.pc = "done", !.outcome = "ok", !.cached = TRUE,
                           !.data = c.seen]
            ELSE [c EXCEPT !.pc = "fetching", !.fetches = @ + 1]]
    /\ UNCHANGED <<contentCache, ttlElapsed>>
    /\ UNCHANGED nonContentVars

\* the content endpoint answers: `await this.redis.setJson(cacheKey, data, 86400)`
ContentResponse(p, v) ==
    /\ ccalls[p].pc = "fetching"
    /\ contentCache' = [contentCache EXCEPT ![ccalls[p].id] = v]
    /\ ccalls' = [ccalls EXCEPT ![p].pc = "cache_set", ![p].data = v]
    /\ redisQ' = Append(redisQ, <<"k", p>>)
    /\ UNCHANGED ttlElapsed
    /\ UNCHANGED nonContentVars

ContentErrorDeletes(p) ==
    /\ ccalls[p].pc = "fetching"
    /\ ccalls' = [ccalls EXCEPT ![p] =
            AfterFetchFailure([ccalls[p] EXCEPT !.fetchFailed = TRUE])]
    /\ contentCache' = [contentCache EXCEPT ![ccalls[p].id] = 0]
    /\ UNCHANGED <<ttlElapsed, redisQ>>
    /\ UNCHANGED nonContentVars

\* the content request fails: fetchAndCacheContent logs and returns null
ContentError(p) ==
    /\ ccalls[p].pc = "fetching"
    /\ ccalls' = [ccalls EXCEPT ![p] =
            AfterFetchFailure([ccalls[p] EXCEPT !.fetchFailed = TRUE])]
    /\ UNCHANGED <<contentCache, ttlElapsed, redisQ>>
    /\ UNCHANGED nonContentVars

\* after the cache write: `return { cached: false, data: fresh }`
ContentCacheSetReply(p) ==
    /\ redisQ # <<>> /\ Head(redisQ) = <<"k", p>>
    /\ ccalls[p].pc = "cache_set"
    /\ redisQ' = Tail(redisQ)
    /\ ccalls' = [ccalls EXCEPT ![p].pc = "done", ![p].outcome = "ok"]
    /\ UNCHANGED <<contentCache, ttlElapsed>>
    /\ UNCHANGED nonContentVars

\* the 24 h TTL of an entry runs out
ContentExpire(id) ==
    /\ id <= NumContentIds
    /\ contentCache[id] # 0
    /\ contentCache' = [contentCache EXCEPT ![id] = 0]
    /\ ttlElapsed' = ttlElapsed \cup {id}
    /\ UNCHANGED <<ccalls, redisQ>>
    /\ UNCHANGED nonContentVars

ContentNext ==
    \/ \E p \in 1..NumContentCalls, id \in 1..NumContentIds, refresh \in BOOLEAN :
            CallGetPropertyContent(p, id, refresh)
    \/ \E p \in 1..NumContentCalls : ContentCacheReply(p)
    \/ \E p \in 1..NumContentCalls, v \in UpstreamContent : ContentResponse(p, v)
    \/ \E p \in 1..NumContentCalls : ContentError(p)
    \/ \E p \in 1..NumContentCalls : ContentCacheSetReply(p)
    \/ \E id \in 1..NumContentIds : ContentExpire(id)

----------------------------------------------------------------------------
(* SearchService.getCheapestByPropertyIds.  The ids of a call are 1..sIds; *)
(* a pricing answer holds room stays of the first and the last id of the   *)
(* chunk it was asked for.                                                  *)

NoPrice == -1                \* priceBeforeTax / priceAfterTax is undefined
Infinity == 1000000000       \* Number.POSITIVE_INFINITY

Min(a, b) == IF a <= b THEN a ELSE b

\* rs.total?.priceBeforeTax ?? rs.total?.priceAfterTax ?? Infinity
rsTotal(rs) ==
    IF rs.before # NoPrice THEN rs.before
    ELSE IF rs.after # NoPrice THEN rs.after
    ELSE Infinity

IdCounts == {0, 1, CHUNK, CHUNK + 1}

\* the values of i the loop `for (i = 0; i < ids.length; i += CHUNK)` takes
ChunkStarts(n) == {i \in 0..n : i % CHUNK = 0 /\ i < n}

\* ids.slice(i, i + CHUNK)
Batch(i, n) == (i + 1)..Min(i + CHUNK, n)

Prices == [before : {NoPrice, 90, 100}, after : {NoPrice, 95}]

\* the answers of the pricing search for the chunk at i
RECURSIVE Answers(_, _, _)
Answers(i, n, len) ==
    IF len = 0 THEN {<<>>}
    ELSE LET shorter == Answers(i, n, len - 1) IN
         shorter \cup
         {Append(l, [propertyId |-> pid, before |-> pr.before, after |-> pr.after]) :
            l \in {x \in shorter : Len(x) = len - 1},
            pid \in {i + 1, Min(i + CHUNK, n)}, pr \in Prices}

\* out.get(propertyId)
OutGet(out, pid) == {o \in out : o.propertyId = pid}

\* the loop over one answer: `if (!cur || total < curTotal) out.set(...)`
RECURSIVE ReduceLastWins(_, _, _)
ReduceLastWins(out, list, k) ==
    IF k > Len(list) THEN out
    ELSE LET rs == list[k]
             cur == OutGet(out, rs.propertyId)
             better == cur = {} \/ \E c \in cur : rsTotal(rs) <= rsTotal(c) IN
         ReduceLastWins(IF better THEN (out \ cur) \cup {rs} ELSE out, list, k + 1)

RECURSIVE Reduce(_, _, _)
Reduce(out, list, k) ==
    IF k > Len(list) THEN out
    ELSE LET rs == list[k]
             cur == OutGet(out, rs.propertyId)
             better == cur = {} \/ \E c \in cur : rsTotal(rs) < rsTotal(c) IN
         Reduce(IF better THEN (out \ cur) \cup {rs} ELSE out, list, k + 1)

SearchInit ==
    /\ sIds \in IdCounts
    /\ sPc = "idle"
    /\ sI = 0
    /\ sOut = {}
    /\ sQueried = {}
    /\ sFailed = {}
    /\ sEncountered = <<>>

SearchIdle ==
    /\ sIds = 0 /\ sPc = "idle" /\ sI = 0
    /\ sOut = {} /\ sQueried = {} /\ sFailed = {} /\ sEncountered = <<>>

\* the loop head at index i: send the pricing query of the chunk, or return
LoopAt(i) ==
    IF i < sIds
    THEN /\ sPc' = "chunk"
         /\ sI' = i
         /\ sQueried' = sQueried \cup {i}
    ELSE /\ sPc' = "done"
         /\ sI' = i
         /\ UNCHANGED sQueried

\* getCheapestByPropertyIds(ids, ...) up to its first await
CallGetCheapest ==
    /\ sPc = "idle"
    /\ LoopAt(0)
    /\ UNCHANGED <<sIds, sOut, sFailed, sEncountered>>
    /\ UNCHANGED nonSearchVars

\* the pricing search answers for the chunk at sI
SearchResponse ==
    /\ sPc = "chunk"
    /\ \E list \in Answers(sI, sIds, MaxOffers) :
            /\ sOut' = Reduce(sOut, list, 1)
            /\ sEncountered' = sEncountered \o list
    /\ LoopAt(sI + CHUNK)
    /\ UNCHANGED <<sIds, sFailed>>
    /\ UNCHANGED nonSearchVars

\* the pricing search fails for the chunk at sI: oauthService.post throws
\* and nothing catches it
SearchError ==
    /\ sPc = "chunk"
    /\ sPc' = "failed"
    /\ sFailed' = sFailed \cup {sI}
    /\ UNCHANGED <<sIds, sI, sOut, sQueried, sEncountered>>
    /\ UNCHANGED nonSearchVars

SearchNext ==
    \/ CallGetCheapest
    \/ SearchResponse
    \/ SearchError

----------------------------------------------------------------------------
(* SyncService.  A finished or skipped invocation keeps its record until   *)
(* its place is taken by a later trigger.                                   *)

IdleRun ==
    [pc |-> "idle", kind |-> "none", keys |-> <<>>, i |-> 0,
     item |-> [h \in Hotels |-> "none"], successCount |-> 0, errorCount |-> 0,
     failed |-> FALSE, attempts |-> [h \in Hotels |-> 0]]

ActiveRuns == {r \in 1..NumRuns : runs[r].pc \in {"cities", "keys", "batch", "sleep"}}

SyncInit ==
    /\ isSyncing = FALSE
    /\ geoCities = FALSE
    /\ runs = [r \in 1..NumRuns |-> IdleRun]
    /\ \E n \in 0..NumHotels :
            contentCache = [h \in Hotels |-> IF h <= n THEN 1 ELSE 0]

SyncIdle == isSyncing = FALSE /\ geoCities = FALSE /\ runs = <<>>

\* `if (this.isSyncing)`
GuardIgnored(flag) == FALSE

AlreadySyncing(flag) == flag

\* the keys hotel:* of the store, as getHotelKeys() collects them
RECURSIVE HotelKeys(_, _)
HotelKeys(cache, h) ==
    IF h > NumHotels THEN <<>>
    ELSE (IF cache[h] # 0 THEN <<h>> ELSE <<>>) \o HotelKeys(cache, h + 1)

\* hotelKeys.slice(i, i + PARALLEL)
BatchOf(run, i) ==
    {run.keys[k] : k \in {j \in 1..Len(run.keys) : i < j /\ j <= i + PARALLEL}}

\* the loop head at index i: batch.map((key) => this.syncHotelContent(key))
\* sends the content request of every hotel of the batch
StartBatch(run, i) ==
    [run EXCEPT !.pc = "batch", !.i = i,
                !.item = [h \in Hotels |->
                            IF h \in BatchOf(run, i) THEN "fetching" ELSE @[h]],
                !.attempts = [h \in Hotels |->
                            IF h \in BatchOf(run, i) THEN @[h] + 1 ELSE @[h]]]

\* isSyncing after handleNightlySync() ended, with or without a throw:
\* finally { this.isSyncing = false }
GuardKeptOnFailure(failed) == failed

GuardAfter(failed) == FALSE

\* handleNightlySync() returns: its record keeps the counts only
EndRun(run, failed) ==
    [run EXCEPT !.pc = "done", !.failed = failed,
                !.item = [h \in Hotels |-> "none"]]

AfterBatchNoPause(run) ==
    LET batch == BatchOf(run, run.i)
        counted == [run EXCEPT
            !.successCount = @ + Cardinality({h \in batch : run.item[h] = "ok"}),
            !.errorCount = @ + Cardinality({h \in batch : run.item[h] = "failed"})]
    IN  IF run.i + PARALLEL < Len(run.keys)
        THEN StartBatch(counted, run.i + PARALLEL)
        ELSE EndRun(counted, FALSE)

\* Promise.allSettled resolved: count the results, then pause before the
\* next batch or leave the loop
AfterBatch(run) ==
    LET batch == BatchOf(run, run.i)
        counted == [run EXCEPT
            !.successCount = @ + Cardinality({h \in batch : run.item[h] = "ok"}),
            !.errorCount = @ + Cardinality({h \in batch : run.item[h] = "failed"})]
    IN  IF run.i + PARALLEL < Len(run.keys)
        THEN [counted EXCEPT !.pc = "sleep"]
        ELSE EndRun(counted, FALSE)

\* one syncHotelContent() of the batch settled
AbortOnFailure(r, run) ==
    IF \E h \in BatchOf(run, run.i) : run.item[h] = "failed"
    THEN /\ runs' = [runs EXCEPT ![r] = EndRun(run, TRUE)]
         /\ isSyncing' = GuardAfter(TRUE)
    ELSE IF \A h \in BatchOf(run, run.i) : run.item[h] = "ok"
    THEN /\ runs' = [runs EXCEPT ![r] = AfterBatch(run)]
         /\ isSyncing' = IF AfterBatch(run).pc = "done"
                         THEN GuardAfter(FALSE) ELSE isSyncing
    ELSE /\ runs' = [runs EXCEPT ![r] = run]
         /\ UNCHANGED isSyncing

ItemSettled(r, run) ==
    IF \A h \in BatchOf(run, run.i) : run.item[h] \in {"ok", "failed"}
    THEN /\ runs' = [runs EXCEPT ![r] = AfterBatch(run)]
         /\ isSyncing' = IF AfterBatch(run).pc = "done"
                         THEN GuardAfter(FALSE) ELSE isSyncing
    ELSE /\ runs' = [runs EXCEPT ![r] = run]
         /\ UNCHANGED isSyncing

\* the cron schedule fires, or POST /sync/trigger calls manualSync():
\* handleNightlySync() up to its first await
TriggerSync(r, kind) ==
    /\ runs[r].pc \in {"idle", "skipped", "done"}
    /\ \A q \in 1..(r - 1) : runs[q].pc \notin {"idle", "skipped", "done"}
    /\ IF AlreadySyncing(isSyncing)
       THEN /\ runs' = [runs EXCEPT ![r] =
                            [IdleRun EXCEPT !.pc = "skipped", !.kind = kind]]
            /\ UNCHANGED isSyncing
       ELSE /\ isSyncing' = TRUE
            /\ runs' = [runs EXCEPT ![r] =
                            [IdleRun EXCEPT !.pc = "cities", !.kind = kind]]
    /\ UNCHANGED <<geoCities, contentCache>>
    /\ UNCHANGED nonSyncVars

\* syncCities() stored geo:cities; syncHotelsContent() starts the key scan
CitiesSynced(r) ==
    /\ runs[r].pc = "cities"
    /\ geoCities' = TRUE
    /\ runs' = [runs EXCEPT ![r].pc = "keys"]
    /\ UNCHANGED <<isSyncing, contentCache>>
    /\ UNCHANGED nonSyncVars

\* syncCities() caught an error; syncHotelsContent() starts the key scan
CitiesFailed(r) ==
    /\ runs[r].pc = "cities"
    /\ runs' = [runs EXCEPT ![r].pc = "keys"]
    /\ UNCHANGED <<isSyncing, geoCities, contentCache>>
    /\ UNCHANGED nonSyncVars

\* getHotelKeys() returned
KeysScanned(r) ==
    /\ runs[r].pc = "keys"
    /\ LET run == [runs[r] EXCEPT !.keys = HotelKeys(contentCache, 1)] IN
        IF Len(run.keys) = 0
        THEN /\ runs' = [runs EXCEPT ![r] = EndRun(run, FALSE)]
             /\ isSyncing' = GuardAfter(FALSE)
        ELSE /\ runs' = [runs EXCEPT ![r] = StartBatch(run, 0)]
             /\ UNCHANGED isSyncing
    /\ UNCHANGED <<geoCities, contentCache>>
    /\ UNCHANGED nonSyncVars

\* the key scan threw: catch and finally of handleNightlySync()
KeysScanFailed(r) ==
    /\ runs[r].pc = "keys"
    /\ runs' = [runs EXCEPT ![r] = EndRun(runs[r], TRUE)]
    /\ isSyncing' = GuardAfter(TRUE)
    /\ UNCHANGED <<geoCities, contentCache>>
    /\ UNCHANGED nonSyncVars

\* syncHotelContent(): the content arrived and is stored for 24 hours;
\* preloadImages() starts
HotelContentStored(r, h, v) ==
    /\ runs[r].pc = "batch"
    /\ runs[r].item[h] = "fetching"
    /\ contentCache' = [contentCache EXCEPT ![h] = v]
    /\ runs' = [runs EXCEPT ![r].item[h] = "preloading"]
    /\ UNCHANGED <<isSyncing, geoCities>>
    /\ UNCHANGED nonSyncVars

\* syncHotelContent(): preloadImages() returned, `return true`
HotelSynced(r, h) ==
    /\ runs[r].pc = "batch"
    /\ runs[r].item[h] = "preloading"
    /\ ItemSettled(r, [runs[r] EXCEPT !.item[h] = "ok"])
    /\ UNCHANGED <<geoCities, contentCache>>
    /\ UNCHANGED nonSyncVars

\* syncHotelContent(): the request failed or brought no content, `return false`
HotelSyncFailed(r, h) ==
    /\ runs[r].pc = "batch"
    /\ runs[r].item[h] = "fetching"
    /\ ItemSettled(r, [runs[r] EXCEPT !.item[h] = "failed"])
    /\ UNCHANGED <<geoCities, contentCache>>
    /\ UNCHANGED nonSyncVars

\* sleep(500) is over: the next batch
SleepDone(r) ==
    /\ runs[r].pc = "sleep"
    /\ runs' = [runs EXCEPT ![r] = StartBatch(runs[r], runs[r].i + PARALLEL)]
    /\ UNCHANGED <<isSyncing, geoCities, contentCache>>
    /\ UNCHANGED nonSyncVars

SyncNext ==
    \/ \E r \in 1..NumRuns, kind \in {"cron", "manual"} : TriggerSync(r, kind)
    \/ \E r \in 1..NumRuns : CitiesSynced(r)
    \/ \E r \in 1..NumRuns : CitiesFailed(r)
    \/ \E r \in 1..NumRuns : KeysScanned(r)
    \/ \E r \in 1..NumRuns : KeysScanFailed(r)
    \/ \E r \in 1..NumRuns, h \in Hotels, v \in UpstreamContent :
            HotelContentStored(r, h, v)
    \/ \E r \in 1..NumRuns, h \in Hotels : HotelSynced(r, h)
    \/ \E r \in 1..NumRuns, h \in Hotels : HotelSyncFailed(r, h)
    \/ \E r \in 1..NumRuns : SleepDone(r)

----------------------------------------------------------------------------
(* SearchService.getContentForIds.  The ids of a call are 1..hN; the first *)
(* ids are the ones with a cached entry.                                    *)

\* the numbers of cache misses of a call
MissCounts == {0, 1, CONTENT_PARALLEL, CONTENT_PARALLEL + 1}

\* the ids a call may be given
HydrateIds == 1..(MaxCachedIds + CONTENT_PARALLEL + 1)

HydrateInit ==
    /\ \E k \in 0..MaxCachedIds, m \in MissCounts :
            /\ hN = k + m
            /\ contentCache = [id \in 1..(k + m) |-> IF id <= k THEN 1 ELSE 0]
    /\ hPc = "idle"
    /\ hJ = 0
    /\ hI = 0
    /\ hMisses = <<>>
    /\ hItem = [id \in 1..hN |-> "none"]
    /\ hSeen = [id \in 1..hN |-> 0]
    /\ hResult = [id \in 1..hN |-> 0]

HydrateIdle ==
    /\ hN = 0 /\ hPc = "idle" /\ hJ = 0 /\ hI = 0 /\ hMisses = <<>>
    /\ hItem = <<>> /\ hSeen = <<>> /\ hResult = <<>>

\* what fetchAndCacheContent() settles with when the content request
\* fails: the catch block returns null
FetchErrorThrows == "thrown"

FetchErrorYields == "null"

MissChunkRest(misses, i) ==
    {misses[k] : k \in {j \in 1..Len(misses) : i < j}}

\* misses.slice(i, i + PARALLEL)
MissChunk(misses, i) ==
    {misses[k] : k \in {j \in 1..Len(misses) : i < j /\ j <= i + CONTENT_PARALLEL}}

\* the loop head over misses at index i: start fetchAndCacheContent() for
\* every id of the chunk, or `return result`
HydrateLoopAt(misses, i) ==
    IF i < Len(misses)
    THEN /\ hPc' = "chunk"
         /\ hI' = i
         /\ hItem' = [id \in 1..hN |->
                        IF id \in MissChunk(misses, i) THEN "fetching" ELSE hItem[id]]
    ELSE /\ hPc' = "done"
         /\ hI' = i
         /\ UNCHANGED hItem

\* getContentForIds(ids) up to its first await
CallGetContentForIds ==
    /\ hPc = "idle"
    /\ IF hN = 0
       THEN hPc' = "done" /\ UNCHANGED hJ
       ELSE hPc' = "cache" /\ hJ' = 1
    /\ UNCHANGED <<hN, hI, hMisses, hItem, hSeen, hResult, contentCache>>
    /\ UNCHANGED nonHydrateVars

\* the cache lookup of ids[hJ] answers: result.set or misses.push, then the
\* next lookup or the loop over the misses
HydrateCacheReply ==
    /\ hPc = "cache"
    /\ LET cached == contentCache[hJ]
           misses == IF cached # 0 THEN hMisses ELSE Append(hMisses, hJ) IN
        /\ hSeen' = [hSeen EXCEPT ![hJ] = cached]
        /\ hResult' = IF cached # 0 THEN [hResult EXCEPT ![hJ] = cached] ELSE hResult
        /\ hMisses' = misses
        /\ IF hJ < hN
           THEN hJ' = hJ + 1 /\ UNCHANGED <<hPc, hI, hItem>>
           ELSE hJ' = hJ + 1 /\ HydrateLoopAt(misses, 0)
    /\ UNCHANGED <<hN, contentCache>>
    /\ UNCHANGED nonHydrateVars

\* Promise.all(reqs) once no request of the chunk is pending: it rejects if
\* a request threw, else loaded.forEach(...) and the next chunk
ChunkSettles(item, cache) ==
    LET chunk == MissChunk(hMisses, hI) IN
    IF \E id \in chunk : item[id] = "thrown"
    THEN /\ hPc' = "failed"
         /\ hItem' = item
         /\ UNCHANGED <<hI, hResult>>
    ELSE IF \E id \in chunk : item[id] = "fetching"
    THEN /\ hItem' = item
         /\ UNCHANGED <<hPc, hI, hResult>>
    ELSE /\ hResult' = [id \in 1..hN |->
                IF id \in chunk /\ item[id] = "ok" THEN cache[id] ELSE hResult[id]]
         /\ IF hI + CONTENT_PARALLEL < Len(hMisses)
            THEN /\ hPc' = "chunk"
                 /\ hI' = hI + CONTENT_PARALLEL
                 /\ hItem' = [id \in 1..hN |->
                        IF id \in MissChunk(hMisses, hI + CONTENT_PARALLEL)
                        THEN "fetching" ELSE item[id]]
            ELSE /\ hPc' = "done"
                 /\ hI' = hI + CONTENT_PARALLEL
                 /\ hItem' = item

\* fetchAndCacheContent(id): the content arrived, was stored for 24 hours
\* and is returned
HydrateResponse(id, v) ==
    /\ hPc = "chunk"
    /\ id <= hN
    /\ hItem[id] = "fetching"
    /\ contentCache' = [contentCache EXCEPT ![id] = v]
    /\ ChunkSettles([hItem EXCEPT ![id] = "ok"], [contentCache EXCEPT ![id] = v])
    /\ UNCHANGED <<hN, hJ, hMisses, hSeen>>
    /\ UNCHANGED nonHydrateVars

\* fetchAndCacheContent(id): the content request failed
HydrateError(id) ==
    /\ hPc = "chunk"
    /\ id <= hN
    /\ hItem[id] = "fetching"
    /\ ChunkSettles([hItem EXCEPT ![id] = FetchErrorYields], contentCache)
    /\ UNCHANGED <<hN, hJ, hMisses, hSeen, contentCache>>
    /\ UNCHANGED nonHydrateVars

HydrateNext ==
    \/ CallGetContentForIds
    \/ HydrateCacheReply
    \/ \E id \in HydrateIds, v \in UpstreamContent : HydrateResponse(id, v)
    \/ \E id \in HydrateIds : HydrateError(id)

----------------------------------------------------------------------------
(* SearchService.getHotelsList, from the point where the ids of the city,  *)
(* contentById and cheapestById are there.  The ids of the city are        *)
(* 1..NumListingIds; a card is its property id and its price.value.        *)

ListingIds == 1..NumListingIds

NoOffer == [propertyId |-> 0, before |-> NoPrice, after |-> NoPrice]

\* the prices of the room stays that are mapped to cards and offers: those
\* of the pricing search, and a room stay that costs nothing
ShownPrices == Prices \cup {[before |-> 0, after |-> NoPrice]}

\* the room stays cheapestById may hold for property id
ListingOffers(id) ==
    {[propertyId |-> id, before |-> pr.before, after |-> pr.after] :
        pr \in {x \in ShownPrices : x.before = NoPrice \/ x.after = NoPrice}}

\* Math.round(a / b) for a >= 0, b > 0: halves round up
RoundDiv(a, b) == (2 * a + b) \div (2 * b)

\* diffNights: Math.max(1, Math.round(ms / 86400000))
diffNights(days) == Max(1, days)

PerNightUnfloored(total, nights) ==
    IF total = Infinity THEN Infinity
    ELSE RoundDiv(total, Max(1, nights))

\* Math.max(1, Math.round(priceTotal / Math.max(1, nights)))
PerNight(total, nights) ==
    IF total = Infinity THEN Infinity
    ELSE Max(1, RoundDiv(total, Max(1, nights)))

\* buildCard(content, offer, nights, guests): id and price.value
buildCard(content, rs, nights) ==
    [id |-> content, value |-> PerNight(rsTotal(rs), nights)]

\* ids.slice(start, end) with start = offset ?? 0 and
\* end = limit ? start + limit : ids.length
Sliced(offset, limit) ==
    LET end == IF limit # 0 THEN offset + limit ELSE NumListingIds IN
    {id \in ListingIds : offset < id /\ id <= end}

\* `if (!content || !offer) continue`
HasEither(content, offer) == content # 0 \/ offer # NoOffer

HasBoth(content, offer) == content # 0 /\ offer # NoOffer

\* the loop `for (const id of sliced)` from id on: the cards pushed
RECURSIVE CardsFrom(_, _)
CardsFrom(id, sliced) ==
    IF id > NumListingIds THEN <<>>
    ELSE (IF id \in sliced /\ HasBoth(lContent[id], lCheapest[id])
          THEN <<buildCard(lContent[id], lCheapest[id], diffNights(lNights))>>
          ELSE <<>>) \o CardsFrom(id + 1, sliced)

\* cards.sort((a, b) => a.price.value - b.price.value): a stable sort;
\* card c goes after the cards that do not compare greater than it
InsertCard(sorted, c) ==
    LET k == Cardinality({j \in 1..Len(sorted) : sorted[j].value <= c.value}) IN
    SubSeq(sorted, 1, k) \o <<c>> \o SubSeq(sorted, k + 1, Len(sorted))

RECURSIVE SortCards(_, _)
SortCards(cards, n) ==
    IF n = 0 THEN <<>>
    ELSE InsertCard(SortCards(cards, n - 1), cards[n])

ListingInit ==
    /\ lOffset \in {0, 1}
    /\ lLimit \in {0, NumListingIds - 1}
    /\ lNights \in {0, 1, 2}
    /\ \E has \in [ListingIds -> BOOLEAN] :
            lContent = [id \in ListingIds |-> IF has[id] THEN id ELSE 0]
    /\ \E rs \in [ListingIds -> ListingOffers(1) \cup {NoOffer}] :
            lCheapest = [id \in ListingIds |->
                            IF rs[id] = NoOffer THEN NoOffer
                            ELSE [rs[id] EXCEPT !.propertyId = id]]
    /\ lPc = "idle"
    /\ lCards = <<>>

ListingIdle ==
    /\ lOffset = 0 /\ lLimit = 0 /\ lNights = 0 /\ lContent = <<>>
    /\ lCheapest = <<>> /\ lPc = "idle" /\ lCards = <<>>

\* getHotelsList(): build the cards of the window, sort them, return them
BuildCards ==
    /\ lPc = "idle"
    /\ LET cards == CardsFrom(1, Sliced(lOffset, lLimit)) IN
        lCards' = SortCards(cards, Len(cards))
    /\ lPc' = "done"
    /\ UNCHANGED <<lOffset, lLimit, lNights, lContent, lCheapest>>
    /\ UNCHANGED nonListingVars

ListingNext == BuildCards

----------------------------------------------------------------------------
(* OfferService.getPropertyOffers, from the point where the content and    *)
(* the room stays of the property are there.  An offer is its price.total  *)
(* and its price.perNight.                                                  *)

\* the lists getRoomStaysWithDedup may resolve to
RECURSIVE StayLists(_)
StayLists(len) ==
    IF len = 0 THEN {<<>>}
    ELSE LET shorter == StayLists(len - 1) IN
         shorter \cup
         {Append(l, [propertyId |-> 1, before |-> pr.before, after |-> pr.after]) :
            l \in {x \in shorter : Len(x) = len - 1}, pr \in ShownPrices}

\* mapRoomStayToOffer(content, rs, nights): price.total and price.perNight
mapRoomStayToOffer(rs, nights) ==
    [total |-> rsTotal(rs), perNight |-> PerNight(rsTotal(rs), nights)]

\* roomStays.map((rs) => this.mapRoomStayToOffer(content, rs, nights))
MapCheapestOnly(stays, nights) ==
    IF stays = <<>> THEN <<>>
    ELSE LET k == CHOOSE k \in 1..Len(stays) :
                    \A j \in 1..Len(stays) : rsTotal(stays[k]) <= rsTotal(stays[j])
         IN  <<mapRoomStayToOffer(stays[k], nights)>>

MapStays(stays, nights) ==
    [k \in 1..Len(stays) |-> mapRoomStayToOffer(stays[k], nights)]

\* offers.length ? Math.min(...offers.map((o) => o.price.perNight)) : undefined
MinPerNight(offers) ==
    IF Len(offers) = 0 THEN NoPrice
    ELSE CHOOSE m \in {offers[k].perNight : k \in 1..Len(offers)} :
            \A k \in 1..Len(offers) : m <= offers[k].perNight

OffersInit ==
    /\ oStays \in StayLists(MaxStays)
    /\ oDays \in {0, 1, 2}
    /\ oPc = "idle"
    /\ oOffers = <<>>
    /\ oMinPrice = NoPrice

OffersIdle ==
    /\ oStays = <<>> /\ oDays = 0 /\ oPc = "idle"
    /\ oOffers = <<>> /\ oMinPrice = NoPrice

\* getPropertyOffers(): map the room stays, take the least perNight, return
MapOffers ==
    /\ oPc = "idle"
    /\ LET offers == MapStays(oStays, diffNights(oDays)) IN
        /\ oOffers' = offers
        /\ oMinPrice' = MinPerNight(offers)
    /\ oPc' = "done"
    /\ UNCHANGED <<oStays, oDays>>
    /\ UNCHANGED nonOffersVars

OffersNext == MapOffers

----------------------------------------------------------------------------
(* ImageProxyService: the proxy token scheme.  A string is the list of its *)
(* code points, a Buffer the list of its bytes.                             *)

Marker == <<47, 105, 109, 97, 103, 101, 115, 47, 112, 114, 111, 120, 121>>  \* '/images/proxy'
QueryUrl == <<63, 117, 114, 108, 61>>                                       \* '?url='
Scheme == <<104, 116, 116, 112, 115, 58, 47, 47, 104, 47>>                  \* 'https://h/'
Bases == {<<>>, <<104, 116, 116, 112, 115, 58, 47, 47, 97>>}                \* '', 'https://a'

\* what an image URL may go on with: a + ? e-acute, the euro sign, an
\* emoji, and the path /images/proxy
Pieces == {<<97>>, <<43>>, <<63>>, <<233>>, <<8364>>, <<128512>>, Marker}

RECURSIVE PieceLists(_)
PieceLists(len) ==
    IF len = 0 THEN {<<>>}
    ELSE {<<>>} \cup {pc \o l : pc \in Pieces, l \in PieceLists(len - 1)}

ImageUrls == {Scheme \o l : l \in PieceLists(MaxPieces)}

\* Buffer.from(url): the UTF-8 bytes of a code point
Utf8(cp) ==
    IF cp < 128 THEN <<cp>>
    ELSE IF cp < 2048 THEN <<192 + (cp \div 64), 128 + (cp % 64)>>
    ELSE IF cp < 65536
    THEN <<224 + (cp \div 4096), 128 + ((cp \div 64) % 64), 128 + (cp % 64)>>
    ELSE <<240 + (cp \div 262144), 128 + ((cp \div 4096) % 64),
           128 + ((cp \div 64) % 64), 128 + (cp % 64)>>

RECURSIVE Utf8Bytes(_)
Utf8Bytes(str) ==
    IF str = <<>> THEN <<>> ELSE Utf8(Head(str)) \o Utf8Bytes(Tail(str))

IsCont(b) == b >= 128 /\ b <= 191

\* buffer.toString('utf-8'): a byte that begins no well-formed sequence
\* becomes U+FFFD
RECURSIVE Utf8Decode(_)
Utf8Decode(b) ==
    IF b = <<>> THEN <<>>
    ELSE LET n == Len(b)
             b0 == b[1] IN
         IF b0 < 128 THEN <<b0>> \o Utf8Decode(Tail(b))
         ELSE IF b0 >= 194 /\ b0 <= 223 /\ n >= 2 /\ IsCont(b[2])
         THEN <<(b0 - 192) * 64 + (b[2] - 128)>> \o Utf8Decode(SubSeq(b, 3, n))
         ELSE IF /\ b0 >= 224 /\ b0 <= 239 /\ n >= 3
                 /\ IsCont(b[2]) /\ IsCont(b[3])
                 /\ (b0 = 224 => b[2] >= 160) /\ (b0 = 237 => b[2] <= 159)
         THEN <<(b0 - 224) * 4096 + (b[2] - 128) * 64 + (b[3] - 128)>>
                 \o Utf8Decode(SubSeq(b, 4, n))
         ELSE IF /\ b0 >= 240 /\ b0 <= 244 /\ n >= 4
                 /\ IsCont(b[2]) /\ IsCont(b[3]) /\ IsCont(b[4])
                 /\ (b0 = 240 => b[2] >= 144) /\ (b0 = 244 => b[2] <= 143)
         THEN <<(b0 - 240) * 262144 + (b[2] - 128) * 4096
                    + (b[3] - 128) * 64 + (b[4] - 128)>>
                 \o Utf8Decode(SubSeq(b, 5, n))
         ELSE <<65533>> \o Utf8Decode(Tail(b))

\* base64: three bytes are four 6-bit digits; base64url leaves out the padding
RECURSIVE Sextets(_)
Sextets(b) ==
    LET n == Len(b) IN
    IF n = 0 THEN <<>>
    ELSE IF n = 1 THEN <<(b[1] \div 4), (b[1] % 4) * 16>>
    ELSE IF n = 2
    THEN <<(b[1] \div 4), (b[1] % 4) * 16 + (b[2] \div 16), (b[2] % 16) * 4>>
    ELSE <<(b[1] \div 4), (b[1] % 4) * 16 + (b[2] \div 16),
           (b[2] % 16) * 4 + (b[3] \div 64), (b[3] % 64)>> \o Sextets(SubSeq(b, 4, n))

RECURSIVE Octets(_)
Octets(d) ==
    LET n == Len(d) IN
    IF n < 2 THEN <<>>
    ELSE IF n = 2 THEN <<d[1] * 4 + (d[2] \div 16)>>
    ELSE IF n = 3
    THEN <<d[1] * 4 + (d[2] \div 16), (d[2] % 16) * 16 + (d[3] \div 4)>>
    ELSE <<d[1] * 4 + (d[2] \div 16), (d[2] % 16) * 16 + (d[3] \div 4),
           (d[3] % 4) * 64 + d[4]>> \o Octets(SubSeq(d, 5, n))

\* the base64url alphabet: A-Z a-z 0-9 - _
B64Char(v) ==
    IF v < 26 THEN 65 + v
    ELSE IF v < 52 THEN 97 + (v - 26)
    ELSE IF v < 62 THEN 48 + (v - 52)
    ELSE IF v = 62 THEN 45 ELSE 95

\* the digit a character stands for (the decoder also reads + and /), or -1
B64Value(ch) ==
    IF ch >= 65 /\ ch <= 90 THEN ch - 65
    ELSE IF ch >= 97 /\ ch <= 122 THEN ch - 97 + 26
    ELSE IF ch >= 48 /\ ch <= 57 THEN ch - 48 + 52
    ELSE IF ch = 45 \/ ch = 43 THEN 62
    ELSE IF ch = 95 \/ ch = 47 THEN 63
    ELSE -1

\* Buffer.from(encoded, 'base64url') does not throw: a character outside
\* the alphabet is passed over
RECURSIVE B64Digits(_)
B64Digits(str) ==
    IF str = <<>> THEN <<>>
    ELSE IF B64Value(Head(str)) < 0 THEN B64Digits(Tail(str))
    ELSE <<B64Value(Head(str))>> \o B64Digits(Tail(str))

\* Buffer.from(url).toString('base64url')
encodeUrl(url) ==
    LET d == Sextets(Utf8Bytes(url)) IN [k \in 1..Len(d) |-> B64Char(d[k])]

\* Buffer.from(encoded, 'base64url').toString('utf-8')
decodeUrl(encoded) == Utf8Decode(Octets(B64Digits(encoded)))

\* String.prototype.includes
includes(str, sub) ==
    \E k \in 1..(Len(str) - Len(sub) + 1) : SubSeq(str, k, k + Len(sub) - 1) = sub

\* `if (originalUrl.includes('/images/proxy'))`: the URL is taken to be ours
IsOurUrl(originalUrl) == includes(originalUrl, Marker)

\* transformUrl(originalUrl, baseUrl)
transformUrl(originalUrl, base) ==
    IF originalUrl = <<>> THEN originalUrl
    ELSE IF IsOurUrl(originalUrl) THEN originalUrl
    ELSE base \o Marker \o QueryUrl \o encodeUrl(originalUrl)

ProxyInit ==
    /\ pUrl \in ImageUrls
    /\ pBase \in Bases
    /\ pPc = "idle"
    /\ pDecoded = <<>> /\ pProxy = <<>> /\ pProxy2 = <<>>

ProxyIdle ==
    /\ pUrl = <<>> /\ pBase = <<>> /\ pPc = "idle"
    /\ pDecoded = <<>> /\ pProxy = <<>> /\ pProxy2 = <<>>

\* a URL of the upstream content goes through the token scheme
TransformImageUrl ==
    /\ pPc = "idle"
    /\ pDecoded' = decodeUrl(encodeUrl(pUrl))
    /\ pProxy' = transformUrl(pUrl, pBase)
    /\ pProxy2' = transformUrl(transformUrl(pUrl, pBase), pBase)
    /\ pPc' = "done"
    /\ UNCHANGED <<pUrl, pBase>>
    /\ UNCHANGED nonProxyVars

ProxyNext == TransformImageUrl

----------------------------------------------------------------------------
(* ImageProxyService.getImageByEncodedUrl and its file cache.  Calls come  *)
(* from the request path (ImageProxyController.getImage) and from the       *)
(* nightly sync (cacheHotelImages).                                          *)

\* the image URLs of the upstream content: https://h/a and https://h/e-acute
ServiceUrls == {Scheme \o <<97>>, Scheme \o <<233>>}

\* tokens that are not the encoding of a URL: '!', 'A', and '_w' (the byte FF)
MalformedTokens == {<<33>>, <<65>>, <<95, 119>>}

ImageTokens == {encodeUrl(u) : u \in ServiceUrls} \cup MalformedTokens

\* the content-type header of a download answer; "" is an answer without one
ContentTypes == {"image/jpeg", "image/png", "text/html", ""}

\* the bytes an image URL is answered with, now or after the image changed
ImageBytes == {1, 2}

\* createHash('md5').update(url).digest('hex'), taken to be free of collisions
urlToHash(url) == <<"md5", url>>

contentTypeToExtRaw(ct) ==
    CASE ct = "image/jpeg" -> "jpg"
      [] ct = "image/jpg" -> "jpg"
      [] ct = "image/png" -> "png"
      [] ct = "image/webp" -> "webp"
      [] ct = "image/gif" -> "gif"
      [] OTHER -> "bin"

\* contentTypeToExt: map[contentType.split(';')[0]] || 'jpg'
contentTypeToExt(ct) ==
    CASE ct = "image/jpeg" -> "jpg"
      [] ct = "image/jpg" -> "jpg"
      [] ct = "image/png" -> "png"
      [] ct = "image/webp" -> "webp"
      [] ct = "image/gif" -> "gif"
      [] OTHER -> "jpg"

Extensions == {"jpg", "jpeg", "png", "webp", "gif"}

\* const extensions = ['jpg', 'jpeg', 'png', 'webp', 'gif']
ExtOrder == <<"jpg", "jpeg", "png", "webp", "gif">>

\* extToContentType: map[ext] || 'image/jpeg'
extToContentType(ext) ==
    CASE ext = "jpg" -> "image/jpeg"
      [] ext = "jpeg" -> "image/jpeg"
      [] ext = "png" -> "image/png"
      [] ext = "webp" -> "image/webp"
      [] ext = "gif" -> "image/gif"
      [] OTHER -> "image/jpeg"

\* a file of the cache directory is <<hash, ext, bytes>>
\* findCachedFile(hash) finds a file
HasCachedFile(files, hash) ==
    \E f \in files : f[1] = hash /\ f[2] \in Extensions

\* findCachedFile(hash): the file of the first extension that exists
findCachedFile(files, hash) ==
    LET k == CHOOSE j \in 1..Len(ExtOrder) :
                /\ \E f \in files : f[1] = hash /\ f[2] = ExtOrder[j]
                /\ \A m \in 1..(j - 1) :
                        ~\E f \in files : f[1] = hash /\ f[2] = ExtOrder[m]
    IN  CHOOSE f \in files : f[1] = hash /\ f[2] = ExtOrder[k]

\* writeFileSync(filePath, buffer): the file is created or overwritten
writeFileSync(files, hash, ext, buffer) ==
    {f \in files : f[1] # hash \/ f[2] # ext} \cup {<<hash, ext, buffer>>}

\* axios.get(url) can be answered only when the URL names a host
IsFetchable(url) ==
    Len(url) > Len(Scheme) /\ SubSeq(url, 1, Len(Scheme)) = Scheme

ImageInit == iFiles = {} /\ iWrites = <<>> /\ icalls = <<>>

ImageIdle == iFiles = {} /\ iWrites = <<>> /\ icalls = <<>>

\* getImageByEncodedUrl(encodedUrl) up to its first await: decodeUrl does
\* not throw, so the call goes on to the cache lookup with whatever string
\* the token decodes to
CallGetImage(tok) ==
    /\ Len(icalls) < NumImageCalls
    /\ LET originalUrl == decodeUrl(tok)
           hash == urlToHash(originalUrl) IN
        icalls' = Append(icalls,
            IF HasCachedFile(iFiles, hash)
            THEN \* readFileSync(cachedFile.path), cachedFile.contentType
                 [token |-> tok, url |-> originalUrl, pc |-> "done",
                  outcome |-> "served from cache", downloads |-> 0,
                  buffer |-> findCachedFile(iFiles, hash)[3],
                  contentType |-> extToContentType(findCachedFile(iFiles, hash)[2])]
            ELSE \* downloadAndCache: await axios.get(url, ...)
                 [token |-> tok, url |-> originalUrl, pc |-> "download",
                  outcome |-> "none", downloads |-> 1,
                  buffer |-> 0, contentType |-> "none"])
    /\ UNCHANGED <<iFiles, iWrites>>
    /\ UNCHANGED nonImageVars

\* the download is answered: writeFileSync(join(cacheDir, hash.ext), buffer)
\* and `return { buffer, contentType }`
DownloadResponse(i, header, buffer) ==
    /\ i \in 1..Len(icalls) /\ icalls[i].pc = "download"
    /\ IsFetchable(icalls[i].url)
    /\ LET contentType == IF header = "" THEN "image/jpeg" ELSE header
           hash == urlToHash(icalls[i].url)
           ext == contentTypeToExt(contentType) IN
        /\ iFiles' = writeFileSync(iFiles, hash, ext, buffer)
        /\ iWrites' = Append(iWrites, <<hash, ext, buffer>>)
        /\ icalls' = [icalls EXCEPT ![i].pc = "done", ![i].outcome = "downloaded",
                                    ![i].buffer = buffer,
                                    ![i].contentType = contentType]
    /\ UNCHANGED nonImageVars

\* the download fails: throw new NotFoundException('Failed to fetch image')
DownloadError(i) ==
    /\ i \in 1..Len(icalls) /\ icalls[i].pc = "download"
    /\ icalls' = [icalls EXCEPT ![i].pc = "done",
                                ![i].outcome = "Failed to fetch image"]
    /\ UNCHANGED <<iFiles, iWrites>>
    /\ UNCHANGED nonImageVars

ImageNext ==
    \/ \E tok \in ImageTokens : CallGetImage(tok)
    \/ \E i \in 1..NumImageCalls, ct \in ContentTypes, b \in ImageBytes :
            DownloadResponse(i, ct, b)
    \/ \E i \in 1..NumImageCalls : DownloadError(i)

----------------------------------------------------------------------------
(* ReservationService.quickBook: hydrateRoomStay, fetchRoomStays and the   *)
(* verify and create requests.  A room stay is its roomType.id, its         *)
(* ratePlan.id and its checksum.                                             *)

Missing == 0         \* a field that is absent
NotSent == -1        \* no request was sent
NoMatch == [roomType |-> Missing, ratePlan |-> Missing, checksum |-> Missing]

\* the offers of the pricing engine: one per room type and rate plan, each
\* with a checksum of its own
BookingOffers ==
    {[roomType |-> t, ratePlan |-> r, checksum |-> 10 * t + r] : t \in 1..2, r \in 1..2}

RECURSIVE OfferLists(_)
OfferLists(len) ==
    IF len = 0 THEN {<<>>}
    ELSE LET shorter == OfferLists(len - 1) IN
         shorter \cup
         {Append(l, o) : l \in {x \in shorter : Len(x) = len - 1},
                         o \in BookingOffers}

DistinctOffers(l) == \A j, k \in 1..Len(l) : j # k => l[j] # l[k]

Shapes == {"full", "noChecksum", "noRoomType"}

\* params.roomStay as the client sends it
SelectedAs(o, shape) ==
    CASE shape = "full" -> o
      [] shape = "noChecksum" -> [o EXCEPT !.checksum = Missing]
      [] shape = "noRoomType" -> [o EXCEPT !.roomType = Missing]

\* isCompleteRoomStay(rs)
isCompleteRoomStay(rs) ==
    rs.roomType # Missing /\ rs.ratePlan # Missing /\ rs.checksum # Missing

\* the predicate of roomStays.find(...) in hydrateRoomStay
Matches(rs, desired) ==
    \/ desired.checksum # Missing /\ rs.checksum = desired.checksum
    \/ desired.ratePlan # Missing /\ rs.ratePlan = desired.ratePlan
    \/ desired.roomType # Missing /\ rs.roomType = desired.roomType

\* roomStays.find(...): the first room stay that matches
FindMatch(roomStays, desired) ==
    LET hits == {k \in 1..Len(roomStays) : Matches(roomStays[k], desired)} IN
    IF hits = {} THEN NoMatch
    ELSE roomStays[CHOOSE k \in hits : \A j \in hits : k <= j]

\* buildRoomStayRq(rs, ...).checksum: (rs as any)?.checksum ?? ''
buildRoomStayRq(rs) == rs.checksum

\* a createBookingToken of the verify answer: absent (null or undefined),
\* the empty string, or a token
NoToken == "null"
TokenValues(tok) == {NoToken, "", tok}

\* !value, for a string or null
Falsy(value) == value = NoToken \/ value = ""

\* a ?? b
Coalesce(a, b) == IF a # NoToken THEN a ELSE b

NotAnswered == [state |-> "none", booking |-> NoToken, alternative |-> NoToken]

BookingInit ==
    /\ bChosen \in BookingOffers
    /\ bShape \in Shapes
    /\ bUpstream \in {l \in OfferLists(MaxBookingOffers) : DistinctOffers(l)}
    /\ bPc = "idle" /\ bGet = "none" /\ bPost = "none"
    /\ bRq = NotSent /\ bVerifySent = NotSent /\ bCreateSent = NotSent
    /\ bVerify = NotAnswered /\ bToken = "none"
    /\ bOutcome = "none"

BookingIdle ==
    /\ bChosen = NoMatch /\ bShape = "full" /\ bUpstream = <<>>
    /\ bPc = "idle" /\ bGet = "none" /\ bPost = "none"
    /\ bRq = NotSent /\ bVerifySent = NotSent /\ bCreateSent = NotSent
    /\ bVerify = NotAnswered /\ bToken = "none"
    /\ bOutcome = "none"

\* hydrateRoomStay has its room stay: build roomStaysRq and send verify
SendVerify(rs) ==
    /\ bRq' = buildRoomStayRq(rs)
    /\ bVerifySent' = buildRoomStayRq(rs)
    /\ bPc' = "verify"
    /\ UNCHANGED <<bCreateSent, bVerify, bToken, bOutcome>>

\* hydrateRoomStay after fetchRoomStays returned roomStays
AfterFetch(roomStays) ==
    LET match == FindMatch(roomStays, SelectedAs(bChosen, bShape)) IN
    IF match = NoMatch
    THEN \* throw new BadRequestException(...)
         /\ bPc' = "done" /\ bOutcome' = "BadRequest"
         /\ UNCHANGED <<bRq, bVerifySent, bCreateSent, bVerify, bToken>>
    ELSE SendVerify(match)

\* quickBook(params) up to its first await
CallQuickBook ==
    /\ bPc = "idle"
    /\ IF isCompleteRoomStay(SelectedAs(bChosen, bShape))
       THEN SendVerify(SelectedAs(bChosen, bShape)) /\ UNCHANGED bGet
       ELSE \* fetchRoomStays: await this.oauth.get(url)
            /\ bPc' = "get" /\ bGet' = "pending"
            /\ UNCHANGED <<bRq, bVerifySent, bCreateSent, bVerify, bToken, bOutcome>>
    /\ UNCHANGED <<bChosen, bShape, bUpstream, bPost>>
    /\ UNCHANGED nonBookingVars

\* the primary call is answered: `if (resp?.roomStays?.length) return`,
\* else the code goes on to the POST
BookingGetResponse ==
    /\ bPc = "get"
    /\ bGet' = "ok"
    /\ IF Len(bUpstream) > 0
       THEN AfterFetch(bUpstream) /\ UNCHANGED bPost
       ELSE /\ bPc' = "post" /\ bPost' = "pending"
            /\ UNCHANGED <<bRq, bVerifySent, bCreateSent, bVerify, bToken, bOutcome>>
    /\ UNCHANGED <<bChosen, bShape, bUpstream>>
    /\ UNCHANGED nonBookingVars

\* the primary call raises: catch (error) { /* fallback to POST below */ }
BookingGetError ==
    /\ bPc = "get"
    /\ bGet' = "raised"
    /\ bPc' = "post" /\ bPost' = "pending"
    /\ UNCHANGED <<bChosen, bShape, bUpstream, bRq, bVerifySent, bCreateSent, bVerify, bToken, bOutcome>>
    /\ UNCHANGED nonBookingVars

\* the alternate call is answered: return altResp?.roomStays ?? []
BookingPostResponse ==
    /\ bPc = "post"
    /\ bPost' = "ok"
    /\ AfterFetch(bUpstream)
    /\ UNCHANGED <<bChosen, bShape, bUpstream, bGet>>
    /\ UNCHANGED nonBookingVars

\* the alternate call raises, and quickBook with it
BookingPostError ==
    /\ bPc = "post"
    /\ bPost' = "raised"
    /\ bPc' = "done" /\ bOutcome' = "UpstreamError"
    /\ UNCHANGED <<bChosen, bShape, bUpstream, bGet, bRq, bVerifySent, bCreateSent, bVerify, bToken>>
    /\ UNCHANGED nonBookingVars

\* verifyBooking is answered, with or without a createBookingToken in
\* booking and in alternativeBooking
VerifyResponse(booking, alternative) ==
    /\ bPc = "verify"
    /\ bVerify' = [state |-> "answered", booking |-> booking,
                   alternative |-> alternative]
    /\ IF Falsy(booking) /\ Falsy(alternative)
       THEN \* return { verify: verifyRes, created: null }
            /\ bPc' = "done" /\ bOutcome' = "notCreated"
            /\ UNCHANGED <<bCreateSent, bToken>>
       ELSE \* createPayload carries the same roomStaysRq and the token
            /\ bCreateSent' = bRq
            /\ bToken' = Coalesce(booking, alternative)
            /\ bPc' = "create"
            /\ UNCHANGED bOutcome
    /\ UNCHANGED <<bChosen, bShape, bUpstream, bGet, bPost, bRq, bVerifySent>>
    /\ UNCHANGED nonBookingVars

\* verifyBooking or createBooking fails: handleAxiosError throws
BookingRequestError ==
    /\ bPc \in {"verify", "create"}
    /\ bVerify' = IF bPc = "verify"
                  THEN [NotAnswered EXCEPT !.state = "failed"] ELSE bVerify
    /\ bPc' = "done" /\ bOutcome' = "UpstreamError"
    /\ UNCHANGED <<bChosen, bShape, bUpstream, bGet, bPost, bRq, bVerifySent,
                   bCreateSent, bToken>>
    /\ UNCHANGED nonBookingVars

\* createBooking is answered
CreateResponse ==
    /\ bPc = "create"
    /\ bPc' = "done" /\ bOutcome' = "created"
    /\ UNCHANGED <<bChosen, bShape, bUpstream, bGet, bPost, bRq, bVerifySent, bCreateSent, bVerify, bToken>>
    /\ UNCHANGED nonBookingVars

BookingNext ==
    \/ CallQuickBook
    \/ BookingGetResponse
    \/ BookingGetError
    \/ BookingPostResponse
    \/ BookingPostError
    \/ \E booking \in TokenValues("tokenB"), alternative \in TokenValues("tokenA") :
            VerifyResponse(booking, alternative)
    \/ BookingRequestError
    \/ CreateResponse

----------------------------------------------------------------------------
(* OfferService.getRoomStaysWithDedup: the request key and the guests       *)
(* object.  A string is the list of its code points.                        *)

Date1 == <<50, 48, 50, 53, 45, 48, 49, 45, 48, 49>>    \* '2025-01-01'
Date2 == <<50, 48, 50, 53, 45, 48, 49, 45, 48, 50>>    \* '2025-01-02'
Date3 == <<50, 48, 50, 53, 45, 48, 49, 45, 48, 51>>    \* '2025-01-03'
Rub == <<82, 85, 66>>                                  \* 'RUB'
Eur == <<69, 85, 82>>                                  \* 'EUR'
Sep == <<58>>                                          \* ':'

\* String(n) of a whole number n >= 0
RECURSIVE Dec(_)
Dec(n) == IF n < 10 THEN <<48 + n>> ELSE Dec(n \div 10) \o <<48 + (n % 10)>>

\* the propertyId path parameter: '7', or a segment that holds colons,
\* '7:2025-01-01:2025-01-02:1::RUB'
PropertyIds ==
    {<<55>>,
     <<55>> \o Sep \o Date1 \o Sep \o Date2 \o Sep \o Dec(1) \o Sep \o Sep \o Rub}

\* the currency query parameter: 'EUR', or a value that holds colons,
\* 'RUB:2025-01-01:2025-01-02:1::EUR'
Currencies ==
    {Eur,
     Rub \o Sep \o Date1 \o Sep \o Date2 \o Sep \o Dec(1) \o Sep \o Sep \o Eur}

\* arrival and departure as parseDatesRange formats them
Stays == {<<Date1, Date2>>, <<Date1, Date3>>, <<Date2, Date3>>}

AdultCounts == {1, 2}

\* the childAges query parameter: '', '12', '1,2', '2,1'
ChildAgeLists == {<<>>, <<12>>, <<1, 2>>, <<2, 1>>}

KeyRequests ==
    [propertyId : PropertyIds, stay : Stays, adultCount : AdultCounts,
     childAges : ChildAgeLists, currency : Currencies]

\* array.sort((a, b) => a - b)
RECURSIVE SortAges(_)
SortAges(ages) ==
    IF ages = <<>> THEN <<>>
    ELSE LET rest == SortAges(Tail(ages))
             a == Head(ages)
             k == Cardinality({j \in 1..Len(rest) : rest[j] < a})
         IN  SubSeq(rest, 1, k) \o <<a>> \o SubSeq(rest, k + 1, Len(rest))

\* array.join(',')
RECURSIVE JoinAges(_)
JoinAges(ages) ==
    IF ages = <<>> THEN <<>>
    ELSE IF Len(ages) = 1 THEN Dec(ages[1])
    ELSE Dec(ages[1]) \o <<44>> \o JoinAges(Tail(ages))

\* `rs:${propertyId}:${arrival}:${departure}:${guests.adultCount}:${childAgesStr}:${currency}`
requestKey(propertyId, arrival, departure, adultCount, childAgesStr, currency) ==
    <<114, 115>> \o Sep \o propertyId \o Sep \o arrival \o Sep \o departure
        \o Sep \o Dec(adultCount) \o Sep \o childAgesStr \o Sep \o currency

KeyCalls == {1, 2}

KeyInit ==
    /\ kReq \in [KeyCalls -> KeyRequests]
    /\ kGuests = [r \in KeyCalls |-> kReq[r].childAges]
    /\ kPc = [r \in KeyCalls |-> "idle"]
    /\ kKey = [r \in KeyCalls |-> <<>>]
    /\ kSent = [r \in KeyCalls |-> <<>>]

KeyIdle ==
    /\ kReq = <<>> /\ kGuests = <<>> /\ kPc = <<>> /\ kKey = <<>> /\ kSent = <<>>

\* getRoomStaysWithDedup() up to its first await: sort() sorts the array
\* guests.childAges itself, the key is built and the cache lookup is issued
CallWithDedup(r) ==
    /\ kPc[r] = "idle"
    /\ kGuests' = [kGuests EXCEPT ![r] = SortAges(kGuests[r])]
    /\ kKey' = [kKey EXCEPT ![r] =
            requestKey(kReq[r].propertyId, kReq[r].stay[1], kReq[r].stay[2],
                       kReq[r].adultCount, JoinAges(SortAges(kGuests[r])),
                       kReq[r].currency)]
    /\ kPc' = [kPc EXCEPT ![r] = "cache_get"]
    /\ UNCHANGED <<kReq, kSent>>
    /\ UNCHANGED nonKeyVars

\* a cache miss without a fetch in flight: fetchRoomStays() appends the
\* childAges parameters from guests.childAges and sends the GET
KeyFetch(r) ==
    /\ kPc[r] = "cache_get"
    /\ kSent' = [kSent EXCEPT ![r] = kGuests[r]]
    /\ kPc' = [kPc EXCEPT ![r] = "fetching"]
    /\ UNCHANGED <<kReq, kGuests, kKey>>
    /\ UNCHANGED nonKeyVars

\* a cache hit, or a fetch in flight that is followed: no request is sent
KeyServed(r) ==
    /\ kPc[r] = "cache_get"
    /\ kPc' = [kPc EXCEPT ![r] = "served"]
    /\ UNCHANGED <<kReq, kGuests, kKey, kSent>>
    /\ UNCHANGED nonKeyVars

KeyNext ==
    \/ \E r \in KeyCalls : CallWithDedup(r)
    \/ \E r \in KeyCalls : KeyFetch(r)
    \/ \E r \in KeyCalls : KeyServed(r)

----------------------------------------------------------------------------
(* Specifications *)

NoContent == contentCache = [h \in Hotels |-> 0]

InitToken ==
    /\ KeyIdle /\ BookingIdle /\ ImageIdle /\ ProxyIdle /\ OffersIdle /\ ListingIdle /\ HydrateIdle /\ DedupIdle /\ NoContent /\ ContentIdle /\ SearchIdle /\ SyncIdle
    /\ TokenInit
SpecToken == InitToken /\ [][TokenNext]_vars

InitDedup ==
    /\ KeyIdle /\ BookingIdle /\ ImageIdle /\ ProxyIdle /\ OffersIdle /\ ListingIdle /\ HydrateIdle /\ TokenIdle /\ NoContent /\ ContentIdle /\ SearchIdle /\ SyncIdle
    /\ redisQ = <<>>
    /\ DedupInit
SpecDedup == InitDedup /\ [][DedupNext]_vars

InitContent ==
    /\ KeyIdle /\ BookingIdle /\ ImageIdle /\ ProxyIdle /\ OffersIdle /\ ListingIdle /\ HydrateIdle /\ TokenIdle /\ DedupIdle /\ SearchIdle /\ SyncIdle /\ redisQ = <<>>
    /\ ContentInit
SpecContent == InitContent /\ [][ContentNext]_vars

InitSearch ==
    /\ KeyIdle /\ BookingIdle /\ ImageIdle /\ ProxyIdle /\ OffersIdle /\ ListingIdle /\ HydrateIdle /\ TokenIdle /\ DedupIdle /\ NoContent /\ ContentIdle /\ SyncIdle
    /\ redisQ = <<>>
    /\ SearchInit
SpecSearch == InitSearch /\ [][SearchNext]_vars

InitSync ==
    /\ KeyIdle /\ BookingIdle /\ ImageIdle /\ ProxyIdle /\ OffersIdle /\ ListingIdle /\ HydrateIdle /\ TokenIdle /\ DedupIdle /\ ContentIdle /\ SearchIdle /\ redisQ = <<>>
    /\ SyncInit
SpecSync == InitSync /\ [][SyncNext]_vars

InitHydrate ==
    /\ KeyIdle /\ BookingIdle /\ ImageIdle /\ ProxyIdle /\ OffersIdle /\ ListingIdle /\ TokenIdle /\ DedupIdle /\ ContentIdle /\ SearchIdle /\ SyncIdle
    /\ redisQ = <<>>
    /\ HydrateInit
SpecHydrate == InitHydrate /\ [][HydrateNext]_vars

InitListing ==
    /\ KeyIdle /\ BookingIdle /\ ImageIdle /\ ProxyIdle /\ OffersIdle /\ TokenIdle /\ DedupIdle /\ NoContent /\ ContentIdle /\ SearchIdle /\ SyncIdle
    /\ HydrateIdle /\ redisQ = <<>>
    /\ ListingInit
SpecListing == InitListing /\ [][ListingNext]_vars

InitOffers ==
    /\ KeyIdle /\ BookingIdle /\ ImageIdle /\ ProxyIdle /\ TokenIdle /\ DedupIdle /\ NoContent /\ ContentIdle /\ SearchIdle /\ SyncIdle
    /\ HydrateIdle /\ ListingIdle /\ redisQ = <<>>
    /\ OffersInit
SpecOffers == InitOffers /\ [][OffersNext]_vars

InitProxy ==
    /\ KeyIdle /\ BookingIdle /\ ImageIdle /\ TokenIdle /\ DedupIdle /\ NoContent /\ ContentIdle /\ SearchIdle /\ SyncIdle
    /\ HydrateIdle /\ ListingIdle /\ OffersIdle /\ redisQ = <<>>
    /\ ProxyInit
SpecProxy == InitProxy /\ [][ProxyNext]_vars

InitImage ==
    /\ KeyIdle /\ BookingIdle /\ TokenIdle /\ DedupIdle /\ NoContent /\ ContentIdle /\ SearchIdle /\ SyncIdle
    /\ HydrateIdle /\ ListingIdle /\ OffersIdle /\ ProxyIdle /\ redisQ = <<>>
    /\ ImageInit
SpecImage == InitImage /\ [][ImageNext]_vars

InitBooking ==
    /\ KeyIdle /\ TokenIdle /\ DedupIdle /\ NoContent /\ ContentIdle /\ SearchIdle /\ SyncIdle
    /\ HydrateIdle /\ ListingIdle /\ OffersIdle /\ ProxyIdle /\ ImageIdle
    /\ redisQ = <<>>
    /\ BookingInit
SpecBooking == InitBooking /\ [][BookingNext]_vars

\* the two writers of the content cache, each on its own: calls of
\* getPropertyContent, or invocations of the nightly sync
InitRefresh == InitContent \/ InitSync

RefreshNext ==
    \/ ccalls # <<>> /\ ContentNext
    \/ runs # <<>> /\ SyncNext

SpecRefresh == InitRefresh /\ [][RefreshNext]_vars

\* the two places that compute a per-night price, each on its own: the
\* cards of getHotelsList, or the offers of getPropertyOffers
InitPrices == InitListing \/ InitOffers

PricesNext ==
    \/ lContent # <<>> /\ ListingNext
    \/ lContent = <<>> /\ OffersNext

SpecPrices == InitPrices /\ [][PricesNext]_vars

InitKey ==
    /\ TokenIdle /\ DedupIdle /\ NoContent /\ ContentIdle /\ SearchIdle /\ SyncIdle
    /\ HydrateIdle /\ ListingIdle /\ OffersIdle /\ ProxyIdle /\ ImageIdle /\ BookingIdle
    /\ redisQ = <<>>
    /\ KeyInit
SpecKey == InitKey /\ [][KeyNext]_vars

\* every request, store command and timer of a run ends: the steps of a
\* started run are taken eventually (triggers may or may not come)
SyncProgress ==
    \E r \in 1..NumRuns :
        \/ CitiesSynced(r) \/ CitiesFailed(r)
        \/ KeysScanned(r) \/ KeysScanFailed(r)
        \/ SleepDone(r)
        \/ \E h \in Hotels :
                \/ HotelSynced(r, h) \/ HotelSyncFailed(r, h)
                \/ \E v \in UpstreamContent : HotelContentStored(r, h, v)

\* the store holds entries that already are what the content endpoint
\* answers with, as after an earlier sync
InitSyncFresh ==
    /\ KeyIdle /\ BookingIdle /\ ImageIdle /\ ProxyIdle /\ OffersIdle /\ ListingIdle /\ HydrateIdle /\ TokenIdle /\ DedupIdle /\ ContentIdle /\ SearchIdle /\ redisQ = <<>>
    /\ isSyncing = FALSE
    /\ geoCities = FALSE
    /\ runs = [r \in 1..NumRuns |-> IdleRun]
    /\ \E n \in 0..NumHotels, v \in UpstreamContent :
            contentCache = [h \in Hotels |-> IF h <= n THEN v ELSE 0]

SpecSyncFair == InitSyncFresh /\ [][SyncNext]_vars /\ WF_vars(SyncProgress)

----------------------------------------------------------------------------
(* Properties of getRoomStaysWithDedup, checked under SpecDedup *)

FetchesFor(k) == {f \in 1..Len(fetches) : fetches[f].pid = k}

\* every call for fingerprint k arrived before any call for k had returned
AllConcurrent(k) == \A p \in DStarted : dcalls[p].pid = k => dcalls[p].conc

\* C2: concurrent calls with one fingerprint start at most one upstream
\* pricing fetch and all resolve to the same list or fail with the same
\* error.
C2_OneFetchPerFingerprint ==
    \A k \in Properties :
        AllConcurrent(k) =>
            /\ Cardinality(FetchesFor(k)) <= 1
            /\ \A p, q \in DFinished :
                (dcalls[p].pid = k /\ dcalls[q].pid = k) =>
                    /\ dcalls[p].outcome = dcalls[q].outcome
                    /\ dcalls[p].result = dcalls[q].result
                    /\ dcalls[p].err = dcalls[q].err

\* the calls that registered the fetch f and have not returned
OwnersOf(f) == Waiting(f, "own") \cup Waiting(f, "cache_set")

\* C11: an in-flight entry exists only while the call that registered it has
\* not returned, whether its fetch succeeded or failed and whether or not
\* followers attached; when no call is outstanding the map is empty; and a
\* call only ever follows a fetch that has not failed, so a call that comes
\* after a settled attempt starts a fresh one.
C11_InFlightRemoved ==
    /\ \A k \in Properties :
            inFlightRequests[k] # 0 =>
                /\ fetches[inFlightRequests[k]].pid = k
                /\ OwnersOf(inFlightRequests[k]) # {}
    /\ (DStarted = DFinished => \A k \in Properties : inFlightRequests[k] = 0)
    /\ \A p \in DStarted :
            dcalls[p].pc = "follow" =>
                /\ fetches[dcalls[p].waitOn].pc \in {"get", "post"}
                /\ inFlightRequests[dcalls[p].pid] = dcalls[p].waitOn

\* an owner and its follower were both rejected and the entry is gone
C11_Witness ==
    \E p, q \in DFinished :
        /\ p # q
        /\ dcalls[p].waitOn # 0 /\ dcalls[p].waitOn = dcalls[q].waitOn
        /\ dcalls[p].outcome = "error" /\ dcalls[q].outcome = "error"
        /\ inFlightRequests[dcalls[p].pid] = 0

\* C12: a call that has not found its result in the cache has an in-flight
\* entry for its fingerprint whenever it is suspended: the entry is
\* registered before the first suspension point of the call.
C12_RegisteredBeforeSuspension ==
    \A p \in DStarted \ DFinished :
        ~dcalls[p].seen.has => inFlightRequests[dcalls[p].pid] # 0

----------------------------------------------------------------------------
(* Claims about the content cache, under SpecContent *)

\* C6: a getPropertyContent call whose content fetch failed, and whose cache
\* lookup had found an entry for the property, returns that entry with
\* stale = true and cached = true, and does not raise.
C6_StaleOnError ==
    \A p \in CFinished :
        (ccalls[p].fetchFailed /\ ccalls[p].seen # 0) =>
            /\ ccalls[p].outcome = "ok"
            /\ ccalls[p].stale
            /\ ccalls[p].cached
            /\ ccalls[p].data = ccalls[p].seen

\* a forced refresh failed over an existing entry and the entry was served
C6_Witness ==
    \E p \in CFinished :
        /\ ccalls[p].fetchFailed /\ ccalls[p].seen # 0
        /\ ccalls[p].refresh
        /\ ccalls[p].stale /\ ccalls[p].data = ccalls[p].seen

\* C7: two getPropertyContent calls for the same id without refresh, with no
\* entry before the first, no failed fetch and no TTL expiry in between, send
\* at most one content fetch together, and exactly one once both returned.
C7_OneFetchForTwoCalls ==
    \A p, q \in CStarted :
        (/\ p < q
         /\ ccalls[p].id = ccalls[q].id
         /\ ~ccalls[p].refresh /\ ~ccalls[q].refresh
         /\ ccalls[p].seen = 0
         /\ ~ccalls[p].fetchFailed /\ ~ccalls[q].fetchFailed
         /\ ccalls[p].id \notin ttlElapsed) =>
            /\ ccalls[p].fetches + ccalls[q].fetches <= 1
            /\ ({p, q} \subseteq CFinished =>
                    ccalls[p].fetches + ccalls[q].fetches = 1)

\* C15: a finished getPropertyContent call raised NotFoundException exactly
\* when its cache lookup found no entry and its content fetch failed; in
\* every other case it returned data.
C15_FailsOnlyWithoutFallback ==
    \A p \in CFinished :
        /\ ccalls[p].outcome \in {"ok", "NotFound"}
        /\ ccalls[p].outcome = "NotFound" <=>
                (ccalls[p].seen = 0 /\ ccalls[p].fetchFailed)
        /\ ccalls[p].outcome = "ok" => ccalls[p].data # 0

\* a call without a cached entry whose fetch failed
C15_Witness ==
    \E p \in CFinished :
        /\ ccalls[p].outcome = "NotFound"
        /\ ccalls[p].seen = 0 /\ ccalls[p].fetchFailed

----------------------------------------------------------------------------
(* Claims about getCheapestByPropertyIds, under SpecSearch *)

\* C8: when getCheapestByPropertyIds has ended, the pricing query of every
\* chunk was sent, whether or not the query of another chunk failed, and the
\* offers collected from the answered chunks are in a map that is returned.
C8_ChunksIndependent ==
    sPc \in {"done", "failed"} =>
        /\ sQueried = ChunkStarts(sIds)
        /\ (sOut # {} => sPc = "done")

\* the room stays of property pid among those encountered, in order
OffersOf(pid) == SelectSeq(sEncountered, LAMBDA rs : rs.propertyId = pid)

\* the first room stay of a non-empty list whose total is the least total
FirstMin(offers) ==
    LET least == CHOOSE t \in {rsTotal(offers[k]) : k \in 1..Len(offers)} :
                    \A k \in 1..Len(offers) : t <= rsTotal(offers[k])
        first == CHOOSE k \in 1..Len(offers) :
                    /\ rsTotal(offers[k]) = least
                    /\ \A j \in 1..(k - 1) : rsTotal(offers[j]) # least
    IN  offers[first]

\* C17: when getCheapestByPropertyIds returns, the map holds for every
\* property id with encountered room stays exactly the first of them, in
\* encounter order, whose total (priceBeforeTax, else priceAfterTax, else
\* infinity) is the least, and no entry for any other property id.
C17_FirstCheapest ==
    sPc = "done" =>
        \A pid \in 1..sIds :
            IF OffersOf(pid) = <<>>
            THEN OutGet(sOut, pid) = {}
            ELSE OutGet(sOut, pid) = {FirstMin(OffersOf(pid))}

\* a property had two different room stays with the same least total and
\* the map holds the earlier one
C17_Witness ==
    /\ sPc = "done"
    /\ \E pid \in 1..sIds :
        LET offers == OffersOf(pid) IN
        /\ Len(offers) = 2
        /\ offers[1] # offers[2]
        /\ rsTotal(offers[1]) = rsTotal(offers[2])
        /\ OutGet(sOut, pid) = {offers[1]}

----------------------------------------------------------------------------
(* Claims about the sync, under SpecSync *)

Outstanding(h) ==
    {r \in 1..NumRuns : runs[r].item[h] \in {"fetching", "preloading"}}

\* C5: at most one sync run is active at any time, isSyncing is set exactly
\* while a run is active, no hotel has its content fetched by two runs at
\* once, and a trigger that found a run in progress did nothing: it scanned
\* no keys and fetched nothing.
C5_SingleInstance ==
    /\ Cardinality(ActiveRuns) <= 1
    /\ isSyncing <=> ActiveRuns # {}
    /\ \A h \in Hotels : Cardinality(Outstanding(h)) <= 1
    /\ \A r \in 1..NumRuns :
            runs[r].pc = "skipped" =>
                /\ runs[r].keys = <<>>
                /\ \A h \in Hotels : runs[r].item[h] = "none"

\* a trigger was skipped while a run has content requests outstanding
C5_Witness ==
    \E r, q \in 1..NumRuns :
        /\ runs[r].pc = "batch"
        /\ \E h \in Hotels : runs[r].item[h] = "fetching"
        /\ runs[q].pc = "skipped"

\* C13: whenever the in-progress guard is set it is eventually cleared,
\* whatever the steps of the run do (the cities refresh fails, the key scan
\* throws, property refreshes fail), and a run that has ended leaves the
\* guard clear, so that the next trigger starts a run.
C13_GuardEventuallyCleared ==
    /\ [](isSyncing => <>(~isSyncing))
    /\ [](ActiveRuns = {} => ~isSyncing)

\* a run ended by a throw of the key scan and the guard is clear
C13_Witness ==
    \E r \in 1..NumRuns :
        /\ runs[r].pc = "done" /\ runs[r].failed
        /\ ~isSyncing

Keys(r) == {runs[r].keys[k] : k \in 1..Len(runs[r].keys)}

----------------------------------------------------------------------------
(* Claims about getContentForIds, under SpecHydrate *)

\* C16: getContentForIds never throws, and when it has returned its result
\* holds exactly the ids whose cache lookup found an entry, with that entry,
\* and the misses whose fetch succeeded, with the fetched content; a miss
\* whose fetch failed has no entry.
C16_BatchToleratesFailures ==
    /\ hPc # "failed"
    /\ hPc = "done" =>
        \A id \in 1..hN :
            /\ hResult[id] # 0 <=> (hSeen[id] # 0 \/ hItem[id] = "ok")
            /\ hSeen[id] # 0 => hResult[id] = hSeen[id]
            /\ hItem[id] = "ok" => hResult[id] \in UpstreamContent
            /\ hSeen[id] = 0 => hItem[id] \in {"ok", "null"}

\* a call over two chunks of misses returned with a cached id, a fetched id
\* and a failed id
C16_Witness ==
    /\ hPc = "done"
    /\ Len(hMisses) > CONTENT_PARALLEL
    /\ \E a, b, c \in 1..hN :
        /\ hSeen[a] # 0 /\ hResult[a] # 0
        /\ hItem[b] = "ok" /\ hResult[b] # 0
        /\ hItem[c] = "null" /\ hResult[c] = 0

----------------------------------------------------------------------------
(* Claims about getHotelsList, under SpecListing *)

\* C18: the cards getHotelsList returns are one card for every property of
\* the window that has an entry in contentById and an entry in cheapestById,
\* no card for any other property, and their price.value never decreases
\* along the list.
C18_OneCardEachSorted ==
    lPc = "done" =>
        /\ \A id \in ListingIds :
                Cardinality({k \in 1..Len(lCards) : lCards[k].id = id}) =
                    (IF /\ id \in Sliced(lOffset, lLimit)
                        /\ lContent[id] # 0 /\ lCheapest[id] # NoOffer
                     THEN 1 ELSE 0)
        /\ \A k \in 1..Len(lCards) : lCards[k].id \in ListingIds
        /\ \A j, k \in 1..Len(lCards) : j < k => lCards[j].value <= lCards[k].value

\* two cards came out in the other order than their ids, and a property of
\* the window without an offer has no card
C18_Witness ==
    /\ lPc = "done"
    /\ \E j, k \in 1..Len(lCards) :
            j < k /\ lCards[j].id > lCards[k].id /\ lCards[j].value < lCards[k].value
    /\ \E id \in Sliced(lOffset, lLimit) :
            lContent[id] # 0 /\ lCheapest[id] = NoOffer

----------------------------------------------------------------------------
(* Claims about getPropertyOffers, under SpecOffers *)

\* p is total / nights rounded to the nearest integer, halves up, and at
\* least 1; an infinite total gives an infinite price
IsPerNight(p, total, nights) ==
    IF total = Infinity THEN p = Infinity
    ELSE \/ /\ p >= 1
            /\ (2 * p - 1) * nights <= 2 * total
            /\ 2 * total < (2 * p + 1) * nights
         \/ p = 1 /\ 2 * total < nights

\* C19: the response of getPropertyOffers has one offer for every room stay
\* of the property, in the same order; the total of an offer is
\* priceBeforeTax of its room stay, else priceAfterTax, else infinity; its
\* perNight is that total over the number of nights (at least one night);
\* and minPrice is the least perNight of the offers, or undefined when there
\* are none.
C19_OfferPerRoomStay ==
    oPc = "done" =>
        LET nights == IF oDays >= 1 THEN oDays ELSE 1 IN
        /\ Len(oOffers) = Len(oStays)
        /\ \A k \in 1..Len(oOffers) :
                /\ oOffers[k].total =
                        (IF oStays[k].before # NoPrice THEN oStays[k].before
                         ELSE IF oStays[k].after # NoPrice THEN oStays[k].after
                         ELSE Infinity)
                /\ IsPerNight(oOffers[k].perNight, oOffers[k].total, nights)
        /\ oOffers = <<>> => oMinPrice = NoPrice
        /\ oOffers # <<>> =>
                /\ \E k \in 1..Len(oOffers) : oMinPrice = oOffers[k].perNight
                /\ \A k \in 1..Len(oOffers) : oMinPrice <= oOffers[k].perNight

\* two room stays with different totals over two nights: two offers, and
\* minPrice is the perNight of the cheaper one, which is not the first
C19_Witness ==
    /\ oPc = "done"
    /\ oDays = 2
    /\ Len(oOffers) = 2
    /\ oOffers[1].perNight > oOffers[2].perNight
    /\ oOffers[2].perNight * 2 = oOffers[2].total
    /\ oMinPrice = oOffers[2].perNight

----------------------------------------------------------------------------
(* Claims about the proxy token scheme, under SpecProxy *)

\* str begins with pre
StartsWith(str, pre) ==
    Len(str) >= Len(pre) /\ SubSeq(str, 1, Len(pre)) = pre

\* the token of a proxy URL: what follows <base>/images/proxy?url=
\* (nothing when the URL does not have that form)
EmbeddedToken(url, base) ==
    LET pre == base \o Marker \o QueryUrl IN
    IF StartsWith(url, pre) THEN SubSeq(url, Len(pre) + 1, Len(url)) ELSE <<>>

\* url is <base>/images/proxy?url=<token> with a non-empty base64url token
IsProxyForm(url, base) ==
    LET tok == EmbeddedToken(url, base) IN
    /\ tok # <<>>
    /\ \A k \in 1..Len(tok) : B64Value(tok[k]) >= 0 /\ tok[k] \notin {43, 47}

\* decoding the encoding of an image URL gives the URL back
EncodingRoundTrip == pPc = "done" => pDecoded = pUrl

\* C24: for every image URL, decodeUrl(encodeUrl(url)) = url, and the
\* token embedded in transformUrl(url) decodes back to url.
C24_RoundTrip ==
    /\ EncodingRoundTrip
    /\ pPc = "done" => decodeUrl(EmbeddedToken(pProxy, pBase)) = pUrl

\* C25: transformUrl rewrites every externally addressed image URL into a
\* proxy URL, and applying it again changes nothing; a URL passes through
\* unchanged only when it already has proxy form.
C25_TransformIdempotent ==
    pPc = "done" =>
        /\ pProxy2 = pProxy
        /\ IsProxyForm(pProxy, pBase)
        /\ pProxy = pUrl => IsProxyForm(pUrl, pBase)

----------------------------------------------------------------------------
(* Claims about the image cache, under SpecImage *)

\* the writes of call i: a call writes when its download is answered
WroteFile(i) == icalls[i].outcome = "downloaded"

\* C22: getImageByEncodedUrl fails with the invalid-token error for every
\* malformed token, without attempting a download; when the download fails
\* it fails with the image-unavailable error and writes no file.
C22_ImageErrors ==
    \A i \in 1..Len(icalls) :
        /\ icalls[i].token \in MalformedTokens =>
                /\ icalls[i].downloads = 0
                /\ icalls[i].pc = "done" /\ icalls[i].outcome = "Invalid image URL"
        /\ icalls[i].outcome = "Failed to fetch image" => ~WroteFile(i)

\* C23: the cache file of a URL hash is written at most once, and there is
\* at most one file per hash.
C23_WriteOnce ==
    \A u \in {icalls[i].url : i \in 1..Len(icalls)} :
        /\ Cardinality({k \in 1..Len(iWrites) : iWrites[k][1] = urlToHash(u)}) <= 1
        /\ Cardinality({f \in iFiles : f[1] = urlToHash(u)}) <= 1

----------------------------------------------------------------------------
(* Claims about quickBook and its pricing fetch, under SpecBooking *)

\* C26: the pricing fetch issues the alternate (POST) call only when the
\* primary (GET) call raised an error; a primary call that returned, even
\* with an empty result, is never followed by the alternate call.
C26_AlternateOnlyAfterError == bPost # "none" => bGet = "raised"

\* C27: the checksum quickBook sends in the verify and in the create
\* request is the checksum the pricing engine issued for the offer the
\* caller selected.
C27_ChecksumEchoed ==
    /\ bVerifySent # NotSent => bVerifySent = bChosen.checksum
    /\ bCreateSent # NotSent => bCreateSent = bChosen.checksum

----------------------------------------------------------------------------
(* Claims about the writers of the content cache, under SpecRefresh *)

\* the content fetch of getPropertyContent call p fails in this step
ContentFetchFails(p) ==
    ccalls[p].pc = "fetching" /\ ccalls'[p].fetchFailed

\* syncHotelContent of hotel h in run r returns false in this step
SyncFetchFails(r, h) ==
    /\ runs[r].pc = "batch" /\ runs[r].item[h] = "fetching"
    /\ runs'[r].item[h] \notin {"fetching", "preloading"}

----------------------------------------------------------------------------
(* Claims about the pricing cache, under SpecDedup *)

\* fetch f resolves in this step
FetchSucceeds(f) == fetches[f].pc \in {"get", "post"} /\ fetches'[f].pc = "ok"

\* a call of fetch f fails in this step: the GET, or the POST after it
FetchCallFails(f) ==
    \/ fetches[f].pc = "get" /\ fetches'[f].pc = "post"
    \/ fetches[f].pc = "post" /\ fetches'[f].pc = "failed"

\* call p learns in this step that its cache lookup found a result
CacheHitReturns(p) ==
    dcalls[p].pc = "cache_get" /\ dcalls[p].seen.has /\ dcalls'[p].pc # "cache_get"

\* C32: the pricing cache of a fingerprint gets a value only in a step in
\* which a fetch for that fingerprint resolves, and the value is the
\* filtered answer of that fetch; a step in which a fetch fails leaves the
\* cache unchanged.  A call whose cache lookup found a result returns that
\* result, owns and follows no fetch, and its return adds no fetch and no
\* in-flight entry.
C32_PricingCacheWrites ==
    /\ [](\A p \in 1..Len(dcalls) :
            (dcalls[p].seen.has /\ dcalls[p].pc # "cache_get") =>
                /\ dcalls[p].pc = "done" /\ dcalls[p].outcome = "ok"
                /\ dcalls[p].result = dcalls[p].seen.val
                /\ dcalls[p].waitOn = 0)
    /\ [][/\ \A k \in Properties :
                (roomStaysCache'[k] # roomStaysCache[k] /\ roomStaysCache'[k].has) =>
                    \E f \in 1..Len(fetches) :
                        /\ fetches[f].pid = k /\ FetchSucceeds(f)
                        /\ roomStaysCache'[k] =
                                CacheHit(FilterByProperty(fetches'[f].resp, k))
          /\ (\E f \in 1..Len(fetches) : FetchCallFails(f)) =>
                roomStaysCache' = roomStaysCache
          /\ \A p \in 1..Len(dcalls) :
                CacheHitReturns(p) =>
                    fetches' = fetches /\ inFlightRequests' = inFlightRequests]_vars

\* a call was served from the cache another call's fetch had filled: one
\* fetch was made for the two
C32_Witness ==
    \E p \in DFinished :
        /\ dcalls[p].seen.has /\ dcalls[p].outcome = "ok"
        /\ dcalls[p].result = dcalls[p].seen.val /\ dcalls[p].result # <<>>
        /\ Len(fetches) = 1
        /\ fetches[1].pid = dcalls[p].pid

----------------------------------------------------------------------------
(* Claims about the windows of getContentForIds, under SpecHydrate *)

\* the ids whose fetchAndCacheContent() has not settled
OutstandingFetches == {id \in 1..hN : hItem[id] = "fetching"}

\* C33: during getContentForIds at most 10 content fetches are outstanding;
\* every outstanding fetch belongs to the current window, so a window
\* starts only when the fetches of the one before have all settled; and a
\* fetch was issued only for an id whose cache lookup missed.
C33_WindowsOfTen ==
    /\ Cardinality(OutstandingFetches) <= CONTENT_PARALLEL
    /\ OutstandingFetches \subseteq MissChunk(hMisses, hI)
    /\ \A id \in 1..hN :
            hItem[id] # "none" =>
                /\ hJ > id /\ hSeen[id] = 0
                /\ \E k \in 1..Len(hMisses) : hMisses[k] = id

\* the second window runs while the fetches of the first have settled and
\* a cached id was left alone
C33_Witness ==
    /\ hPc = "chunk" /\ hI = CONTENT_PARALLEL
    /\ OutstandingFetches # {}
    /\ \A id \in MissChunk(hMisses, 0) : hItem[id] \in {"ok", "null"}
    /\ \E id \in 1..hN : hSeen[id] # 0 /\ hItem[id] = "none"

----------------------------------------------------------------------------
(* Claims about the batches of a sync run, under SpecSync *)

\* the hotels whose syncHotelContent() has not settled in run
Refreshing(run) == {h \in Hotels : run.item[h] \in {"fetching", "preloading"}}

\* run r starts a batch in this step
BatchStarts(r) ==
    runs'[r].pc = "batch" /\ (runs[r].pc # "batch" \/ runs'[r].i # runs[r].i)

\* C34: in a sync run at most 5 property refreshes are outstanding, all of
\* them of the current batch, and none during the pause; a batch starts
\* either as the first one after the key scan or from the pause that
\* followed the batch before it, when that batch has settled; and a run
\* pauses only when a batch is still to come.
C34_BatchesOfFive ==
    /\ [](\A r \in 1..Len(runs) :
            /\ Cardinality(Refreshing(runs[r])) <= PARALLEL
            /\ Refreshing(runs[r]) # {} =>
                    /\ runs[r].pc = "batch"
                    /\ Refreshing(runs[r]) \subseteq BatchOf(runs[r], runs[r].i)
            /\ runs[r].pc = "sleep" => runs[r].i + PARALLEL < Len(runs[r].keys))
    /\ [][\A r \in 1..Len(runs) :
            BatchStarts(r) =>
                \/ runs[r].pc = "keys" /\ runs'[r].i = 0
                \/ /\ runs[r].pc = "sleep"
                   /\ runs'[r].i = runs[r].i + PARALLEL
                   /\ Refreshing(runs[r]) = {}]_vars

\* the second batch of a run is under way after a full first batch
C34_Witness ==
    \E r \in 1..Len(runs) :
        /\ runs[r].pc = "batch" /\ runs[r].i = PARALLEL
        /\ Refreshing(runs[r]) # {}
        /\ runs[r].successCount + runs[r].errorCount = PARALLEL

----------------------------------------------------------------------------
(* Claims about repeated image calls, under SpecImage *)

\* call i has returned an image
Succeeded(i) == icalls[i].outcome \in {"downloaded", "served from cache"}

C40_CacheServesWhatWasDownloaded ==
    \A j \in 1..Len(icalls) :
        icalls[j].outcome = "served from cache" =>
            \E i \in 1..Len(icalls) :
                /\ icalls[i].outcome = "downloaded"
                /\ icalls[i].url = icalls[j].url
                /\ icalls[i].buffer = icalls[j].buffer
                /\ icalls[i].contentType = icalls[j].contentType

----------------------------------------------------------------------------
(* Claims about the per-night price, under SpecPrices *)

\* C36: the price of every listing card and the perNight of every offer is
\* the total of its room stay divided by max(1, nights) and rounded to the
\* nearest unit, raised to 1 where that is less, and so never below 1.
C36_PerNightPrice ==
    /\ \A k \in 1..Len(lCards) :
            /\ lCards[k].value >= 1
            /\ IsPerNight(lCards[k].value, rsTotal(lCheapest[lCards[k].id]),
                          Max(1, diffNights(lNights)))
    /\ \A k \in 1..Len(oOffers) :
            /\ oOffers[k].perNight >= 1
            /\ IsPerNight(oOffers[k].perNight, rsTotal(oStays[k]),
                          Max(1, diffNights(oDays)))

\* a listing over two nights with a card of total 95, shown as 48, and a
\* card of total 0, shown as 1
C36_Witness ==
    /\ lPc = "done" /\ lNights = 2
    /\ \E k \in 1..Len(lCards) :
            rsTotal(lCheapest[lCards[k].id]) = 95 /\ lCards[k].value = 48
    /\ \E k \in 1..Len(lCards) :
            rsTotal(lCheapest[lCards[k].id]) = 0 /\ lCards[k].value = 1

----------------------------------------------------------------------------
(* Claims about the request key and the guests object, under SpecKey *)

\* how often age a occurs in ages
AgeCount(ages, a) == Cardinality({k \in 1..Len(ages) : ages[k] = a})

SameAges(x, y) == \A a \in 0..17 : AgeCount(x, a) = AgeCount(y, a)

\* two requests for the same property, dates, adults, currency and the same
\* child ages in whatever order
SameRequest(x, y) ==
    /\ x.propertyId = y.propertyId /\ x.stay = y.stay
    /\ x.adultCount = y.adultCount /\ x.currency = y.currency
    /\ SameAges(x.childAges, y.childAges)

\* C37: the keys of two pricing requests are equal when the requests differ
\* in the order of their child ages only, and different when the requests
\* differ in property id, arrival, departure, adult count, the multiset of
\* child ages or currency.
C37_KeyNormalized ==
    (kPc[1] # "idle" /\ kPc[2] # "idle") =>
        (kKey[1] = kKey[2] <=> SameRequest(kReq[1], kReq[2]))

\* C39: a pricing lookup leaves the caller's childAges list in the order it
\* was supplied in, and the GET carries the child ages in that order.
C39_GuestsUnchanged ==
    \A r \in KeyCalls :
        /\ kGuests[r] = kReq[r].childAges
        /\ kPc[r] = "fetching" => kSent[r] = kReq[r].childAges

----------------------------------------------------------------------------
(* Claims about verify and create in quickBook, under SpecBooking *)

\* the createBookingTokens the verify answer holds
ReturnedTokens == {bVerify.booking, bVerify.alternative} \ {NoToken, ""}

\* C38: quickBook sends the create request only after its verify request
\* was answered with a createBookingToken, in booking or in
\* alternativeBooking; the create request carries a token the answer held
\* and the room stays that were verified; and no create request is sent
\* when verify failed or was answered without a token.
C38_CreateAfterVerify ==
    /\ bCreateSent # NotSent =>
            /\ bVerify.state = "answered" /\ ReturnedTokens # {}
            /\ bToken \in ReturnedTokens
            /\ bCreateSent = bVerifySent
    /\ (bVerify.state \in {"none", "failed"} \/ ReturnedTokens = {}) =>
            bCreateSent = NotSent /\ bToken = "none"

====
